---- MODULE Spec2Model ----
(***************************************************************************)
(* A model of the Tradier -> Supabase polling bot (src/bot):               *)
(*   - the four polling loops started by main (positions, quotes,         *)
(*     spot indicators, trade import), at the granularity of their awaits,*)
(*   - the row store they share (positions, new_trades, active_trades,    *)
(*     spot_tf),                                                           *)
(*   - the pure indicator functions of spot_indicators.py.                 *)
(***************************************************************************)
EXTENDS Integers, Sequences, FiniteSets, TLC

VARIABLES
    main,           \* state of main()'s asyncio.gather: "running" | "failed"
    pc,             \* pc[l]: where loop l is suspended
    last_end,       \* the iteration the step just taken ended, if any (NoEnd)
    step,           \* the row or symbol the step just taken handled, and how (NoStep)
    positions,      \* table public.positions: id -> row
    raw_positions,  \* positions loop: positions fetched so far this iteration
    acct_idx,       \* positions loop: index of the account being fetched
    active,         \* quotes loop: rows read by fetch_active_tradier_positions
    new_trades,     \* table new_trades: set of request rows
    active_trades,  \* table active_trades: set of rows
    rows,           \* import loop: rows fetched by this cycle
    row_idx,        \* import loop: index of the next row of the cycle
    uuid_next,      \* number of uuid4() values given to inserted rows
    tf_index,       \* spot loop: local cycle pointer
    tf,             \* spot loop: <<timeframe, use_case>> of the current cycle
    tf_log,         \* spot loop: timeframes of the last cycles, the current one last
    symbols,        \* spot loop: symbols of the current cycle
    sym_idx,        \* spot loop: index of the symbol being fetched
    spot_tf,        \* table spot_tf: <<symbol, timeframe, use_case>> -> snapshot
    candles,        \* indicator engine: the candle sequence under analysis
    fractal_in,     \* indicator engine: the fractal width asked for
    swings,         \* indicator engine: result of find_swings, or Pending
    snapshot,       \* indicator engine: result of compute_spot_snapshot, or Pending
    trade_in,       \* row builder: the request, defaults and spot it is given
    trade_out,      \* row builder: result of _build_active_trade_row, or Pending
    levels_out,     \* row builder: result of _compute_sl_tp_levels, or Pending
    call_in,        \* a single call of a function: its name and arguments
    call_out        \* a single call of a function: its result, or Pending

loop_vars == <<main, pc, last_end, step>>
pos_vars  == <<positions, raw_positions, acct_idx, active>>
imp_vars  == <<new_trades, active_trades, rows, row_idx, uuid_next>>
spot_vars == <<tf_index, tf, tf_log, symbols, sym_idx, spot_tf>>
ind_vars  == <<candles, fractal_in, swings, snapshot>>
build_vars == <<trade_in, trade_out, levels_out>>
call_vars == <<call_in, call_out>>
vars == <<loop_vars, pos_vars, imp_vars, spot_vars, ind_vars, build_vars, call_vars>>

(***************************************************************************)
(* Values.  A Python float or None is a triple <<tag, num, den>>: a finite *)
(* number is the reduced fraction num/den, den > 0.                        *)
(***************************************************************************)
RECURSIVE GCD(_, _)
GCD(a, b) == IF b = 0 THEN a ELSE GCD(b, a % b)

Abs(a) == IF a < 0 THEN -a ELSE a

None == <<"none", 0, 1>>
NaN  == <<"nan", 0, 1>>
Inf  == <<"inf", 1, 1>>

Frac(n, d) ==
    LET s == IF d < 0 THEN -1 ELSE 1
        g == GCD(Abs(n), Abs(d))
    IN  <<"num", (s * n) \div g, (s * d) \div g>>

Num(v) == <<"num", v, 1>>

\* A missing (None) string field; "" is the empty string.
NULL == "<null>"

\* The result of a call that was not made yet.
Pending == [pending |-> TRUE]

\* A call that raises yields the record [raised |-> <exception>].
Raised(exc) == [raised |-> exc]
HasRaised(x) == "raised" \in DOMAIN x

\* int(x) of a finite float: the fraction is cut off, towards zero.
Trunc(x) == IF x[2] >= 0 THEN x[2] \div x[3] ELSE -((-x[2]) \div x[3])

IsNone(x) == x[1] = "none"
IsNum(x)  == x[1] = "num"

\* Python truthiness of a float-or-None: None and 0.0 are falsy, NaN is not.
Truthy(x) == ~IsNone(x) /\ ~(IsNum(x) /\ x[2] = 0)

\* Python's `a or b`.
Or(a, b) == IF Truthy(a) THEN a ELSE b

Max(a, b) == IF a >= b THEN a ELSE b

\* The range of a sequence.
Range(s) == {s[i] : i \in 1..Len(s)}

SeqOfSet(S) == CHOOSE s \in [1..Cardinality(S) -> S] : Range(s) = S

(***************************************************************************)
(* Configuration (bot/config.py) and loop control.                         *)
(***************************************************************************)
poll_positions_sec == 10
poll_quotes_sec == 5
poll_spot_tf_sec == 900

Loops == {"positions", "quotes", "spot", "import"}

\* The interval each loop computes before its `while True`.
Interval(l) ==
    CASE l = "positions" -> Max(3, poll_positions_sec)
      [] l = "quotes"    -> Max(2, poll_quotes_sec)
      [] l = "spot"      -> Max(300, poll_spot_tf_sec)
      [] l = "import"    -> Max(3, poll_positions_sec)

\* Wall-clock durations an iteration may be measured to have taken (seconds).
Durations == {4, 2000}

\* Variant: the loops without the `except Exception` around the iteration.
HandlerInnerOnly(l, site) ==
    CASE l = "spot" /\ site \in {"fetch_candles", "compute_spot_snapshot",
                                   "upsert_spot_tf_row"} -> "symbol"
      [] l = "import" /\ site \in {"insert_active_trade", "delete_new_trade"} -> "row"
      [] OTHER -> "none"

\* The except clause that catches an exception raised at `site` of loop l:
\* "loop" is the `except Exception` around the whole iteration, "symbol" and
\* "row" are the inner handlers of the spot and import loops, "none" means
\* the exception leaves the coroutine.
Handler(l, site) ==
    CASE l = "spot" /\ site \in {"fetch_candles", "compute_spot_snapshot",
                                   "upsert_spot_tf_row"} -> "symbol"
      [] l = "import" /\ site \in {"insert_active_trade", "delete_new_trade"} -> "row"
      [] OTHER -> "loop"

\* No iteration ended in the step just taken.
NoEnd == [loop |-> "none", how |-> "none", elapsed |-> 0, arg |-> 0,
          ids |-> {}, deleted |-> {}]

\* What an iteration that touched no positions row reports.
NoInfo == [ids |-> {}, deleted |-> {}]

\* No row and no symbol was handled in the step just taken.  Otherwise
\* step names the loop, the row id or symbol, the result, and how many rows
\* or symbols of the cycle come after it; for an exception that reached the
\* iteration boundary it names the call that raised, with result "raised".
NoStep == [loop |-> "none", id |-> "", result |-> "none", left |-> 0]

\* A step of loop l that does not end its iteration.
GotoWith(l, label, log) ==
    /\ pc' = [pc EXCEPT ![l] = label]
    /\ last_end' = NoEnd
    /\ step' = log
    /\ UNCHANGED main

Goto(l, label) == GotoWith(l, label, NoStep)

\* Variant: the remainder of the interval, not clamped at zero.
EndIterationUnclamped(l, how, e, info, log) ==
    /\ pc' = [pc EXCEPT ![l] = "sleep"]
    /\ last_end' = [loop |-> l, how |-> how, elapsed |-> e,
                    arg |-> Interval(l) - e,
                    ids |-> info.ids, deleted |-> info.deleted]
    /\ step' = log
    /\ UNCHANGED main

\* elapsed = now - start; sleep_for = max(0, interval - elapsed); sleep.
\* `info` records the ids the iteration fetched and those it deleted
\* (positions loop).
EndIterationWith(l, how, e, info, log) ==
    /\ pc' = [pc EXCEPT ![l] = "sleep"]
    /\ last_end' = [loop |-> l, how |-> how, elapsed |-> e,
                    arg |-> Max(0, Interval(l) - e),
                    ids |-> info.ids, deleted |-> info.deleted]
    /\ step' = log
    /\ UNCHANGED main

EndIteration(l, how, e, info) == EndIterationWith(l, how, e, info, NoStep)

\* `await asyncio.sleep(interval); continue` of an iteration with nothing to do.
IdleSleep(l, e) ==
    /\ pc' = [pc EXCEPT ![l] = "sleep"]
    /\ last_end' = [loop |-> l, how |-> "idle", elapsed |-> e,
                    arg |-> Interval(l), ids |-> {}, deleted |-> {}]
    /\ step' = NoStep
    /\ UNCHANGED main

\* An exception that no except clause of the coroutine catches: gather
\* re-raises it in main, and asyncio.run cancels the remaining tasks.
EscapeWith(l, log) ==
    /\ pc' = [m \in Loops |-> IF m = l THEN "terminated" ELSE "cancelled"]
    /\ main' = "failed"
    /\ last_end' = NoEnd
    /\ step' = log


\* An exception raised at `site` of loop l that reaches the iteration boundary.
Throw(l, site, e, info) ==
    LET log == [loop |-> l, id |-> site, result |-> "raised", left |-> 0]
    IN  IF Handler(l, site) = "none" THEN EscapeWith(l, log)
        ELSE EndIterationWith(l, "error", e, info, log)

(***************************************************************************)
(* Strings.  str.upper() / str.lower() on the strings the model uses.      *)
(***************************************************************************)
Upper(s) ==
    CASE s = "spy" -> "SPY"
      [] s = "qqq" -> "QQQ"
      [] s = "spy250919c00450000" -> "SPY250919C00450000"
      [] s = "Option" -> "OPTION"
      [] s = "option" -> "OPTION"
      [] s = "equity" -> "EQUITY"
      [] s = "c" -> "C"
      [] s = "p" -> "P"
      [] OTHER -> s

Lower(s) ==
    CASE s = "SPY" -> "spy"
      [] s = "QQQ" -> "qqq"
      [] s = "SPY250919C00450000" -> "spy250919c00450000"
      [] s = "Option" -> "option"
      [] s = "OPTION" -> "option"
      [] s = "EQUITY" -> "equity"
      [] s = "C" -> "c"
      [] s = "P" -> "p"
      [] s = "Put" -> "put"
      [] OTHER -> s

(***************************************************************************)
(* The brokerage and the quote vendor (tradier_client.py).                 *)
(***************************************************************************)
\* settings.tradier_sandbox_accounts
Accounts == <<"A1", "A2">>

RawEquity == [symbol |-> "spy", quantity |-> Num(2), cost_basis |-> 300,
              asset_type |-> "", underlying |-> ""]
RawOption == [symbol |-> "spy250919c00450000", quantity |-> Num(1), cost_basis |-> 250,
              asset_type |-> "Option", underlying |-> "spy"]
RawBlank  == [symbol |-> "", quantity |-> Num(1), cost_basis |-> 10,
              asset_type |-> "", underlying |-> ""]

\* What fetch_positions may return for each account.
PositionFeeds ==
    [a \in Range(Accounts) |->
        IF a = "A1" THEN {<<>>, <<RawEquity>>, <<RawEquity, RawOption>>, <<RawBlank>>}
        ELSE {<<>>, <<RawEquity>>}]

\* The same for a brokerage with a single equity position.
FewFeeds ==
    [a \in Range(Accounts) |-> IF a = "A1" THEN {<<>>, <<RawEquity>>} ELSE {<<>>}]

Quote(last, close, prevclose) == [last |-> last, close |-> close, prevclose |-> prevclose]

\* What the vendor may know: symbol -> quote.
OpenMarket ==
    [s \in {"SPY", "SPY250919C00450000"} |->
        IF s = "SPY" THEN Quote(Num(5), None, Num(4)) ELSE Quote(Num(0), Num(2), NaN)]

Markets == {<<>>, OpenMarket}

\* The number of symbols a quote request carries at most.
QUOTE_BATCH == 70

\* The largest number of generated symbols a quote call is given.
MaxSymbols == 141

\* The generated symbols S101, S102, ...
Names(n) == [k \in 1..n |-> "S" \o ToString(100 + k)]

\* Every upper-case symbol of the model, in the order of Python strings.
SymbolOrder == <<"QQQ">> \o Names(MaxSymbols) \o <<"SPY", "SPY250919C00450000">>

\* sorted(S) for a set of upper-case symbols.
Sorted(S) == SelectSeq(SymbolOrder, LAMBDA u : u \in S)

\* unique = sorted(set(s.upper() for s in symbols if s))
UniqueSymbolsOf(syms) == Sorted({Upper(s) : s \in {x \in syms : x # ""}})

\* Variant: each batch starts at the last symbol of the batch before it.
RECURSIVE BatchesOverlappingFrom(_, _)
BatchesOverlappingFrom(unique, i) ==
    IF i >= Len(unique) THEN <<>>
    ELSE <<SubSeq(unique, i + 1, IF i + QUOTE_BATCH < Len(unique) THEN i + QUOTE_BATCH
                                 ELSE Len(unique))>>
         \o BatchesOverlappingFrom(unique, i + QUOTE_BATCH - 1)

QuoteBatchesOverlapping(unique) == BatchesOverlappingFrom(unique, 0)

\* for i in range(0, len(unique), 70): batch = unique[i : i + 70]
RECURSIVE BatchesFrom(_, _)
BatchesFrom(unique, i) ==
    IF i >= Len(unique) THEN <<>>
    ELSE <<SubSeq(unique, i + 1, IF i + QUOTE_BATCH < Len(unique) THEN i + QUOTE_BATCH
                                 ELSE Len(unique))>>
         \o BatchesFrom(unique, i + QUOTE_BATCH)

QuoteBatches(unique) == BatchesFrom(unique, 0)

\* out after the requests for the batches were answered: the vendor
\* answers a request with the quotes of those symbols of it that it knows.
QuotesOf(batches, market) ==
    LET asked == UNION {Range(batches[i]) : i \in 1..Len(batches)}
    IN  [s \in asked \cap DOMAIN market |-> market[s]]

\* fetch_quotes(client, symbols) when no request fails: the quotes of the
\* distinct upper-cased non-empty symbols that the vendor returns, keyed by
\* upper-cased symbol.
fetch_quotes(syms, market) == QuotesOf(QuoteBatches(UniqueSymbolsOf(syms)), market)

\* fetch_quotes(client, symbols) for a list of symbols, with the requests
\* it sends: request number fail_at is answered with an HTTP error or times
\* out (0: none is), and the call raises there.
fetch_quotes_requests(syms, market, fail_at) ==
    LET batches == QuoteBatches(UniqueSymbolsOf(Range(syms)))
    IN  IF syms = <<>> THEN [requests |-> <<>>, result |-> <<>>]
        ELSE IF fail_at \in 1..Len(batches)
        THEN [requests |-> SubSeq(batches, 1, fail_at), result |-> Raised("HTTPStatusError")]
        ELSE [requests |-> batches, result |-> fetch_quotes(Range(syms), market)]

\* A vendor that knows every symbol.
FullMarket == [s \in Range(SymbolOrder) |-> Quote(Num(5), None, Num(4))]

\* The symbol lists a quote call may be given: none, one, as many as one,
\* two or three requests carry, pure or followed by repeated, lower-case
\* and empty symbols.
QuoteLists ==
    UNION {{Names(n), Names(n) \o <<"spy", "", "SPY", "S101">>} :
              n \in {0, 1, QUOTE_BATCH - 1, QUOTE_BATCH, QUOTE_BATCH + 1,
                      2 * QUOTE_BATCH - 1, 2 * QUOTE_BATCH, MaxSymbols}}

(***************************************************************************)
(* Table positions (bot/supabase_client.py).                               *)
(***************************************************************************)
\* build_tradier_id: f"tradier:{account_id}:{symbol.upper()}", kept as its parts.
build_tradier_id(account_id, symbol) == <<"tradier", account_id, Upper(symbol)>>

\* id LIKE 'tradier:%'
LikeTradier(id) == id[1] = "tradier"

TradierIds(tbl) == {id \in DOMAIN tbl : LikeTradier(id)}

\* A row another broker's sync keeps in the same table.
OtherRow == [id |-> <<"ibkr", "U1", "SPY">>, symbol |-> "SPY", asset_type |-> "equity",
             occ |-> NULL, qty |-> 7, avg_cost |-> Num(100), mark |-> Num(101),
             prev_close |-> Num(99), contract_multiplier |-> 1,
             underlier_spot |-> Num(101)]

\* Restriction of a table to a set of ids.
Restrict(tbl, ids) == [id \in ids |-> tbl[id]]

\* sb.table("positions").upsert(clean, on_conflict="id")
Upsert(tbl, row) ==
    [id \in DOMAIN tbl \cup {row.id} |-> IF id = row.id THEN row ELSE tbl[id]]

\* Variant: writing rows replaces the table's 'tradier:' rows by them.
UpsertAllReplacing(tbl, rs) ==
    LET written == {rs[i].id : i \in 1..Len(rs)}
        kept    == {id \in DOMAIN tbl : ~LikeTradier(id)} \ written
    IN  [id \in kept \cup written |->
            IF id \in written
            THEN rs[CHOOSE i \in 1..Len(rs) : rs[i].id = id /\ \A j \in (i + 1)..Len(rs) : rs[j].id # id]
            ELSE tbl[id]]

\* upsert_position_row for each row of rs, in order.
RECURSIVE UpsertAll(_, _)
UpsertAll(tbl, rs) ==
    IF rs = <<>> THEN tbl ELSE UpsertAll(Upsert(tbl, Head(rs)), Tail(rs))

StaleIdsAnyBroker(tbl, current_ids) == {id \in DOMAIN tbl : id \notin current_ids}

\* The rows delete_missing_tradier_positions selects and finds missing.
StaleIds(tbl, current_ids) == {id \in TradierIds(tbl) : id \notin current_ids}

\* delete_missing_tradier_positions(current_ids), run to its end.
delete_missing_tradier_positions(tbl, current_ids) ==
    Restrict(tbl, DOMAIN tbl \ StaleIds(tbl, current_ids))

(***************************************************************************)
(* run_positions_loop (bot/loops.py).                                      *)
(***************************************************************************)
\* loops._safe_float: None for None and for non-finite floats.
safe_float(v) == IF IsNum(v) THEN v ELSE None

\* Step 2 of the loop for one raw position p of account a; the position is
\* skipped (Skip) when its symbol is empty.
Skip == [skip |-> TRUE]

\* Variant: the length of the symbol decides only when the position names
\* no asset type.
EnrichByFieldFirst(a, p) ==
    LET sym_raw   == Upper(p.symbol)
        qty       == Trunc(Or(p.quantity, Num(0)))
        inst_type == Lower(p.asset_type)
        is_option == IF inst_type # "" THEN inst_type = "option" ELSE Len(sym_raw) > 15
    IN  IF sym_raw = "" THEN Skip
        ELSE [skip |-> FALSE,
              account_id |-> a,
              symbol |-> sym_raw,
              occ |-> IF is_option THEN sym_raw ELSE NULL,
              asset_type |-> IF is_option THEN "option" ELSE "equity",
              qty |-> qty,
              avg_cost |-> IF qty # 0 THEN Frac(p.cost_basis, qty) ELSE None,
              contract_multiplier |-> IF is_option THEN 100 ELSE 1,
              underlier_symbol |-> IF is_option THEN Upper(p.underlying) ELSE ""]

\* p.asset_type is instrument.asset_type ("" when the position has no
\* instrument or no such field), p.underlying is instrument.underlying or
\* instrument.symbol, p.quantity a float or None.
Enrich(a, p) ==
    LET sym_raw   == Upper(p.symbol)
        qty       == Trunc(Or(p.quantity, Num(0)))
        inst_type == Lower(p.asset_type)
        is_option == inst_type = "option" \/ Len(sym_raw) > 15
    IN  IF sym_raw = "" THEN Skip
        ELSE [skip |-> FALSE,
              account_id |-> a,
              symbol |-> sym_raw,
              occ |-> IF is_option THEN sym_raw ELSE NULL,
              asset_type |-> IF is_option THEN "option" ELSE "equity",
              qty |-> qty,
              avg_cost |-> IF qty # 0 THEN Frac(p.cost_basis, qty) ELSE None,
              contract_multiplier |-> IF is_option THEN 100 ELSE 1,
              underlier_symbol |-> IF is_option THEN Upper(p.underlying) ELSE ""]

\* enriched: the positions of raw that step 2 keeps, in order.
Enriched(raw) ==
    SelectSeq([i \in 1..Len(raw) |-> Enrich(raw[i].account_id, raw[i].p)],
              LAMBDA x : ~x.skip)

\* symbols_to_quote of step 2.
SymbolsToQuote(enriched) ==
    ({enriched[i].symbol : i \in 1..Len(enriched)}
        \cup {enriched[i].underlier_symbol : i \in 1..Len(enriched)}) \ {""}

\* mark / prev_close / underlier_spot as both loops take them from the quotes.
QuoteFields(asset_type, symbol, underlier, quotes) ==
    LET has(s) == s \in DOMAIN quotes
        px(s)  == Or(quotes[s].last, quotes[s].close)
    IN  IF asset_type = "option"
        THEN [mark |-> IF has(symbol) THEN px(symbol) ELSE None,
              prev_close |-> IF has(symbol) THEN quotes[symbol].prevclose ELSE None,
              underlier_spot |-> IF underlier # "" /\ has(underlier)
                                 THEN px(underlier) ELSE None]
        ELSE [mark |-> IF has(symbol) THEN px(symbol) ELSE None,
              prev_close |-> IF has(symbol) THEN quotes[symbol].prevclose ELSE None,
              underlier_spot |-> IF has(symbol) THEN px(symbol) ELSE None]

\* Step 4: the row upserted for one enriched position.
PositionRow(pos, quotes) ==
    LET q == QuoteFields(pos.asset_type, pos.symbol, pos.underlier_symbol, quotes)
    IN  [id |-> build_tradier_id(pos.account_id, pos.symbol),
         symbol |-> pos.symbol,
         asset_type |-> pos.asset_type,
         occ |-> pos.occ,
         qty |-> pos.qty,
         avg_cost |-> safe_float(pos.avg_cost),
         mark |-> safe_float(q.mark),
         prev_close |-> safe_float(q.prev_close),
         contract_multiplier |-> pos.contract_multiplier,
         underlier_spot |-> safe_float(q.underlier_spot)]

PositionRows(raw, quotes) ==
    LET en == Enriched(raw) IN [i \in 1..Len(en) |-> PositionRow(en[i], quotes)]

\* The ids of the positions the iteration's fetch returned.
FetchedIds(raw) ==
    LET en == Enriched(raw)
    IN  {build_tradier_id(en[i].account_id, en[i].symbol) : i \in 1..Len(en)}

\* The raw positions step 2 may be given: with and without a symbol, an
\* asset type, an underlier, and with a whole, a fractional or no quantity.
RawInputs ==
    {[symbol |-> sym, quantity |-> q, cost_basis |-> 300, asset_type |-> t,
      underlying |-> u] :
        sym \in {"", "spy", "spy250919c00450000"},
        q \in {None, Num(0), Num(2), Num(-3), Frac(5, 2), Frac(1, 2)},
        t \in {"", "Option", "option", "equity"},
        u \in {"", "spy"}}

\* No call is under way.
NoCall == [fn |-> "none"]

\* Step 2 of run_positions_loop for a single raw position.
EnrichPosition ==
    /\ call_in.fn = "enrich"
    /\ call_out = Pending
    /\ call_out' = Enrich(call_in.account_id, call_in.p)
    /\ UNCHANGED <<call_in, loop_vars, pos_vars, imp_vars, spot_vars, ind_vars, build_vars>>

\* A call of fetch_quotes.
FetchQuotes ==
    /\ call_in.fn = "fetch_quotes"
    /\ call_out = Pending
    /\ call_out' = fetch_quotes_requests(call_in.symbols, call_in.market, call_in.fail_at)
    /\ UNCHANGED <<call_in, loop_vars, pos_vars, imp_vars, spot_vars, ind_vars, build_vars>>

\* The loop wakes up and awaits fetch_positions for the first account.
PositionsBegin ==
    /\ pc["positions"] = "sleep"
    /\ raw_positions' = <<>>
    /\ acct_idx' = 1
    /\ Goto("positions", "fetch_positions")
    /\ UNCHANGED <<positions, active, imp_vars, spot_vars, ind_vars, build_vars, call_vars>>

\* fetch_positions raises (HTTP error, timeout).
PositionsFetchFails ==
    /\ pc["positions"] = "fetch_positions"
    /\ \E e \in Durations : Throw("positions", "fetch_positions", e, NoInfo)
    /\ raw_positions' = <<>>
    /\ UNCHANGED <<positions, acct_idx, active, imp_vars, spot_vars, ind_vars, build_vars, call_vars>>

\* fetch_positions returns for the current account; after the last account
\* the loop either finds nothing and sleeps, or goes on to await fetch_quotes.
PositionsFetched(feeds) ==
    /\ pc["positions"] = "fetch_positions"
    /\ \E feed \in feeds[Accounts[acct_idx]] :
         LET got == [i \in 1..Len(feed) |->
                        [account_id |-> Accounts[acct_idx], p |-> feed[i]]]
             raw == raw_positions \o got
         IN  /\ raw_positions' = raw
             /\ IF acct_idx < Len(Accounts)
                 THEN /\ acct_idx' = acct_idx + 1
                      /\ Goto("positions", "fetch_positions")
                 ELSE /\ acct_idx' = acct_idx
                      /\ IF raw = <<>>
                         THEN \E e \in Durations : IdleSleep("positions", e)
                         ELSE Goto("positions", "fetch_quotes")
    /\ UNCHANGED <<positions, active, imp_vars, spot_vars, ind_vars, build_vars, call_vars>>

\* fetch_quotes raises.
PositionsQuotesFail ==
    /\ pc["positions"] = "fetch_quotes"
    /\ \E e \in Durations : Throw("positions", "fetch_quotes", e, NoInfo)
    /\ raw_positions' = <<>>
    /\ UNCHANGED <<positions, acct_idx, active, imp_vars, spot_vars, ind_vars, build_vars, call_vars>>

\* fetch_quotes returns: steps 4 and 5 run without an await.  The k-th
\* upsert may raise; then the select or one of the deletes of
\* delete_missing_tradier_positions may raise after the rows D were deleted.
PositionsWrite(markets) ==
    /\ pc["positions"] = "fetch_quotes"
    /\ \E market \in markets, e \in Durations :
         LET quotes == fetch_quotes(SymbolsToQuote(Enriched(raw_positions)), market)
             rws    == PositionRows(raw_positions, quotes)
         IN  \E k \in 0..Len(rws) :
               IF k < Len(rws)
               THEN /\ positions' = UpsertAll(positions, SubSeq(rws, 1, k))
                    /\ Throw("positions", "upsert_position_row", e,
                             [ids |-> FetchedIds(raw_positions), deleted |-> {}])
               ELSE LET up          == UpsertAll(positions, rws)
                        current_ids == {rws[i].id : i \in 1..Len(rws)}
                        stale       == StaleIds(up, current_ids)
                    IN  \E D \in SUBSET stale, failed \in BOOLEAN :
                          /\ ~failed => D = stale
                          /\ failed => (D # stale \/ stale = {})
                          /\ positions' =
                                IF failed THEN Restrict(up, DOMAIN up \ D)
                                ELSE delete_missing_tradier_positions(up, current_ids)
                          /\ LET info == [ids |-> FetchedIds(raw_positions),
                                          deleted |-> D]
                             IN  IF failed
                                 THEN Throw("positions", "delete_missing", e, info)
                                 ELSE EndIteration("positions", "ok", e, info)
    /\ raw_positions' = <<>>
    /\ UNCHANGED <<acct_idx, active, imp_vars, spot_vars, ind_vars, build_vars, call_vars>>

(***************************************************************************)
(* run_quotes_loop (bot/loops.py).                                         *)
(***************************************************************************)
\* The generated column `underlier` of an option row: the root of its OCC symbol.
Underlier(row) ==
    IF row.asset_type = "option" /\ row.occ = "SPY250919C00450000" THEN "SPY" ELSE ""

\* fetch_active_tradier_positions: qty <> 0 and id LIKE 'tradier:%'.
fetch_active_tradier_positions(tbl) ==
    {[id |-> id, symbol |-> tbl[id].symbol, asset_type |-> tbl[id].asset_type,
      underlier |-> Underlier(tbl[id])] :
        id \in {i \in DOMAIN tbl : LikeTradier(i) /\ tbl[i].qty # 0}}

\* Variant: the update writes an upsert, which creates the row it misses.
update_quote_fields_upserting(tbl, pid, fields) ==
    [id \in DOMAIN tbl \cup {pid} |->
        IF id # pid THEN tbl[id]
        ELSE IF pid \in DOMAIN tbl
        THEN [tbl[pid] EXCEPT !.mark = fields.mark, !.prev_close = fields.prev_close,
                              !.underlier_spot = fields.underlier_spot]
        ELSE [id |-> pid, mark |-> fields.mark, prev_close |-> fields.prev_close,
              underlier_spot |-> fields.underlier_spot]]

\* sb.table("positions").update(clean).eq("id", pid): changes the row with
\* that id if there is one, and creates none.
update_quote_fields(tbl, pid, fields) ==
    IF pid \in DOMAIN tbl
    THEN [tbl EXCEPT ![pid] = [@ EXCEPT !.mark = fields.mark,
                                        !.prev_close = fields.prev_close,
                                        !.underlier_spot = fields.underlier_spot]]
    ELSE tbl

\* The fields the loop writes for one row r of `active`.
QuoteUpdate(r, quotes) ==
    LET q == QuoteFields(r.asset_type, Upper(r.symbol), Upper(r.underlier), quotes)
    IN  [mark |-> safe_float(q.mark), prev_close |-> safe_float(q.prev_close),
         underlier_spot |-> safe_float(q.underlier_spot)]

RECURSIVE UpdateAll(_, _, _)
UpdateAll(tbl, rs, quotes) ==
    IF rs = {} THEN tbl
    ELSE LET r == CHOOSE x \in rs : TRUE
         IN  UpdateAll(update_quote_fields(tbl, r.id, QuoteUpdate(r, quotes)),
                       rs \ {r}, quotes)

\* The loop wakes up and reads the active rows; with none it sleeps, else it
\* awaits fetch_quotes.
QuotesBegin ==
    /\ pc["quotes"] = "sleep"
    /\ LET act == fetch_active_tradier_positions(positions)
       IN  IF act = {}
           THEN /\ active' = {}
                /\ \E e \in Durations : IdleSleep("quotes", e)
           ELSE /\ active' = act
                /\ Goto("quotes", "fetch_quotes")
    /\ UNCHANGED <<positions, raw_positions, acct_idx, imp_vars, spot_vars, ind_vars, build_vars, call_vars>>

\* fetch_active_tradier_positions raises.
QuotesSelectFails ==
    /\ pc["quotes"] = "sleep"
    /\ \E e \in Durations : Throw("quotes", "fetch_active", e, NoInfo)
    /\ UNCHANGED <<pos_vars, imp_vars, spot_vars, ind_vars, build_vars, call_vars>>

\* fetch_quotes raises.
QuotesFetchFails ==
    /\ pc["quotes"] = "fetch_quotes"
    /\ \E e \in Durations : Throw("quotes", "fetch_quotes", e, NoInfo)
    /\ active' = {}
    /\ UNCHANGED <<positions, raw_positions, acct_idx, imp_vars, spot_vars, ind_vars, build_vars, call_vars>>

\* fetch_quotes returns and the rows of `active` are updated one by one; an
\* update may raise after the rows U were updated (their ids are reported
\* as those of the iteration).
QuotesWrite(markets) ==
    /\ pc["quotes"] = "fetch_quotes"
    /\ \E market \in markets, e \in Durations, U \in SUBSET active :
         LET syms   == {r.symbol : r \in active} \cup {r.underlier : r \in active}
             quotes == fetch_quotes(syms, market)
             info   == [ids |-> {r.id : r \in U}, deleted |-> {}]
         IN  /\ positions' = UpdateAll(positions, U, quotes)
             /\ IF U = active
                THEN EndIteration("quotes", "ok", e, info)
                ELSE Throw("quotes", "update_quote_fields", e, info)
    /\ active' = {}
    /\ UNCHANGED <<raw_positions, acct_idx, imp_vars, spot_vars, ind_vars, build_vars, call_vars>>

(***************************************************************************)
(* new_trade_importer.py: helpers.                                         *)
(***************************************************************************)
\* Truthiness of a string-or-None.
Given(x) == x # NULL /\ x # ""

\* `a or b` on strings.
OrStr(a, b) == IF Given(a) THEN a ELSE b

\* list[i], defined when InRange(list, i); otherwise Python raises IndexError.
InRange(list, i) == -Len(list) <= i /\ i < Len(list)
At(list, i) == IF i >= 0 THEN list[i + 1] ELSE list[Len(list) + i + 1]

(***************************************************************************)
(* Exact arithmetic for the moving averages and for the rounding of        *)
(* doubles.  A natural number is the sequence of its base-10000 digits,    *)
(* least significant first (0 is <<>>); a moving average is [sign, num,    *)
(* den]: sign * num / den with den > 0.                                    *)
(***************************************************************************)
RECURSIVE BigOf(_)
BigOf(n) == IF n = 0 THEN <<>> ELSE <<n % 10000>> \o BigOf(n \div 10000)

RECURSIVE BigAdd(_, _, _)
BigAdd(a, b, carry) ==
    IF a = <<>> /\ b = <<>> THEN BigOf(carry)
    ELSE LET x == IF a = <<>> THEN 0 ELSE Head(a)
             y == IF b = <<>> THEN 0 ELSE Head(b)
             t == x + y + carry
         IN  <<t % 10000>> \o BigAdd(IF a = <<>> THEN a ELSE Tail(a),
                                     IF b = <<>> THEN b ELSE Tail(b), t \div 10000)

\* a * m + carry, for 0 <= m <= 100000.
RECURSIVE BigTimes(_, _, _)
BigTimes(a, m, carry) ==
    IF m = 0 THEN <<>>
    ELSE IF a = <<>> THEN BigOf(carry)
    ELSE LET t == Head(a) * m + carry
         IN  <<t % 10000>> \o BigTimes(Tail(a), m, t \div 10000)

\* a * m^k
RECURSIVE BigTimesPow(_, _, _)
BigTimesPow(a, m, k) ==
    IF k = 0 THEN a
    ELSE LET b == BigTimes(a, m, 0)
         IN  IF b = <<>> THEN b ELSE BigTimesPow(b, m, k - 1)

\* -1, 0, 1 as a < b, a = b, a > b.
RECURSIVE BigCmp(_, _)
BigCmp(a, b) ==
    IF Len(a) # Len(b) THEN (IF Len(a) < Len(b) THEN -1 ELSE 1)
    ELSE IF a = <<>> THEN 0
    ELSE IF At(a, -1) # At(b, -1) THEN (IF At(a, -1) < At(b, -1) THEN -1 ELSE 1)
    ELSE BigCmp(SubSeq(a, 1, Len(a) - 1), SubSeq(b, 1, Len(b) - 1))

RECURSIVE BigTrim(_)
BigTrim(a) ==
    IF a # <<>> /\ At(a, -1) = 0 THEN BigTrim(SubSeq(a, 1, Len(a) - 1)) ELSE a

\* a - b - borrow, digit by digit, for a >= b.
RECURSIVE BigSubDigits(_, _, _)
BigSubDigits(a, b, borrow) ==
    IF a = <<>> THEN <<>>
    ELSE LET y == IF b = <<>> THEN 0 ELSE Head(b)
             t == Head(a) - y - borrow
         IN  <<(t + 10000) % 10000>>
             \o BigSubDigits(Tail(a), IF b = <<>> THEN b ELSE Tail(b),
                             IF t < 0 THEN 1 ELSE 0)

\* |a - b|
BigDiff(a, b) ==
    IF BigCmp(a, b) >= 0 THEN BigTrim(BigSubDigits(a, b, 0))
    ELSE BigTrim(BigSubDigits(b, a, 0))

\* floor(a / q) and a mod q, for 0 < q <= 100000.
RECURSIVE BigDivMod(_, _)
BigDivMod(a, q) ==
    IF a = <<>> THEN <<<<>>, 0>>
    ELSE LET hi  == BigDivMod(Tail(a), q)
             cur == hi[2] * 10000 + Head(a)
         IN  <<BigTrim(<<cur \div q>> \o hi[1]), cur % q>>

\* a * b
RECURSIVE BigMul(_, _)
BigMul(a, b) ==
    IF a = <<>> \/ b = <<>> THEN <<>>
    ELSE BigTrim(BigAdd(BigTimes(a, Head(b), 0), <<0>> \o BigMul(a, Tail(b)), 0))

(***************************************************************************)
(* Python floats are IEEE 754 doubles: 53 significant bits, every result   *)
(* rounded to the nearest double, ties to even.  The stop and target       *)
(* levels of the importer carry this rounding.  A double here is           *)
(* [m, k]: m / 2^k, not negative, neither subnormal nor infinite.          *)
(***************************************************************************)
\* 2^69: a number below it has at most 16 bits more than a double keeps.
Two69 == BigTimesPow(<<32>>, 65536, 4)

\* A natural number below 10^8 as an integer, and the number of its bits.
SmallOf(a) == IF a = <<>> THEN 0 ELSE a[1] + (IF Len(a) = 2 THEN 10000 * a[2] ELSE 0)
BitLength(n) == CHOOSE b \in 0..30 : n < 2^b /\ (b > 0 => n >= 2^(b - 1))

\* a * 2^n, sixteen bits at a time.
BigShift(a, n) == BigTimesPow(BigTimes(a, 2^(n % 16), 0), 65536, n \div 16)

\* The double nearest to (m + s) / 2^k, where 0 <= s < 1 and sticky says
\* s > 0; an inexact m has more than 53 bits.  Bits beyond the 53rd are
\* dropped sixteen at a time while m >= 2^69 (Coarse), then the last n of
\* them, n being the number of bits of m div 2^48 less 5 (Drop): the first
\* dropped bit and the others decide the rounding, ties to even (Fine).
RECURSIVE RoundDouble(_, _, _)
RoundDouble(m, k, sticky) ==
    LET Coarse(h) == RoundDouble(h[1], k - 16, sticky \/ h[2] # 0)
        Fine(n, h) ==
            [m |-> IF /\ n > 0
                      /\ h[2] >= 2^(n - 1)
                      /\ \/ sticky
                         \/ h[2] % 2^(n - 1) # 0
                         \/ (h[1] # <<>> /\ h[1][1] % 2 = 1)
                   THEN BigAdd(h[1], <<1>>, 0) ELSE h[1],
             k |-> k - n]
        Drop(n) == Fine(n, BigDivMod(m, 2^n))
        Excess(bits) == IF bits > 5 THEN bits - 5 ELSE 0
    IN  IF BigCmp(m, Two69) >= 0 THEN Coarse(BigDivMod(m, 65536))
        ELSE Drop(Excess(BitLength(SmallOf(
                 BigDivMod(BigDivMod(BigDivMod(m, 65536)[1], 65536)[1], 65536)[1]))))

\* The value m / 2^k as a float: the fraction <<"num", n, 2^k>> when n and
\* 2^k are small, else <<"dbl", m, k>> with m odd.  Zero bits at the end
\* of m are taken off sixteen at a time, then the last n of them.
RECURSIVE FloatValue(_, _)
FloatValue(m, k) ==
    LET Odd(r, j) == IF j <= 20 /\ Len(r) <= 2 THEN <<"num", SmallOf(r), 2^j>>
                     ELSE <<"dbl", r, j>>
        Zeros(low, top) == CHOOSE i \in 0..top : /\ low % 2^i = 0
                                                  /\ i < top => low % 2^(i + 1) # 0
        Strip(n) == Odd(BigDivMod(m, 2^n)[1], k - n)
        Low(h) == IF k >= 16 /\ h[2] = 0 THEN FloatValue(h[1], k - 16)
                  ELSE Strip(Zeros(h[2], IF k < 15 THEN k ELSE 15))
    IN  IF m = <<>> THEN Num(0)
        ELSE IF k < 0 THEN FloatValue(BigShift(m, -k), 0)
        ELSE Low(BigDivMod(m, 65536))

\* float(x) of a decimal n/d >= 0 (d <= 100000), and a float as it is; a
\* fraction over a power of two is a double already.
DoubleOf(x) ==
    LET Exact(bits) == IF x[3] = 2^(bits - 1) THEN [m |-> BigOf(x[2]), k |-> bits - 1]
                       ELSE [m |-> <<>>, k |-> -1]
        Parse(d) == RoundDouble(d[1], 80, d[2] # 0)
        Num2(e) == IF e.k >= 0 THEN e ELSE Parse(BigDivMod(BigShift(BigOf(x[2]), 80), x[3]))
    IN  IF x[1] = "dbl" THEN [m |-> x[2], k |-> x[3]]
        ELSE Num2(Exact(BitLength(x[3])))

\* x + y, x - y (for x >= y) and x * y on floats.
DAdd(x, y) ==
    LET Value(r) == FloatValue(r.m, r.k)
        Sum(a, b, k) ==
            Value(RoundDouble(BigAdd(BigShift(a.m, k - a.k), BigShift(b.m, k - b.k), 0),
                              k, FALSE))
        Aligned(a, b) == Sum(a, b, Max(a.k, b.k))
    IN  Aligned(DoubleOf(x), DoubleOf(y))

DSub(x, y) ==
    LET Value(r) == FloatValue(r.m, r.k)
        Difference(a, b, k) ==
            Value(RoundDouble(BigDiff(BigShift(a.m, k - a.k), BigShift(b.m, k - b.k)),
                              k, FALSE))
        Aligned(a, b) == Difference(a, b, Max(a.k, b.k))
    IN  Aligned(DoubleOf(x), DoubleOf(y))

DMul(x, y) ==
    LET Value(r) == FloatValue(r.m, r.k)
        Product(a, b) == Value(RoundDouble(BigMul(a.m, b.m), a.k + b.k, FALSE))
    IN  Product(DoubleOf(x), DoubleOf(y))

\* Arithmetic on finite floats as exact fractions, for values that are
\* rounded or compared afterwards (strikes, bins).
FAdd(x, y) == Frac(x[2] * y[3] + y[2] * x[3], x[3] * y[3])
FSub(x, y) == Frac(x[2] * y[3] - y[2] * x[3], x[3] * y[3])
FMul(x, y) == Frac(x[2] * y[2], x[3] * y[3])
FPos(x)    == IsNum(x) /\ x[2] > 0

\* importer._safe_float: None for None and NaN (infinities pass).
nt_safe_float(v) == IF v[1] \in {"none", "nan"} THEN None ELSE v

\* _parse_cp: <<cp_db, cp_dir>>.
parse_cp(raw) ==
    LET t == Lower(raw)
    IN  IF raw = NULL \/ t = "" THEN <<NULL, NULL>>
        ELSE IF t \in {"call", "c", "buy_call", "long_call"} THEN <<"call", "C">>
        ELSE IF t \in {"put", "p", "buy_put", "long_put"} THEN <<"put", "P">>
        ELSE <<NULL, NULL>>

\* _parse_trade_type
parse_trade_type(raw) == IF Given(raw) THEN Lower(raw) ELSE "swing"

\* _decide_qty: the request's qty if it has one, else defaults.default_qty or 0.
decide_qty(row, defaults) ==
    IF IsNum(row.qty) THEN Trunc(row.qty)
    ELSE IF IsNum(defaults.default_qty) THEN Trunc(defaults.default_qty) ELSE 0

\* Variant: a request without entry parameters is not turned into 'now'.
decide_entry_and_sl_conds_never_now(asset_type, cp_dir, entry_cond, entry_level, entry_tf, sl_cond, sl_level) ==
    LET opt == Lower(asset_type) = "option" /\ cp_dir \in {"C", "P"}
    IN  [entry_cond |-> IF opt /\ ~Given(entry_cond) /\ ~IsNone(entry_level)
                        THEN (IF cp_dir = "C" THEN "ca" ELSE "cb") ELSE entry_cond,
         sl_cond |-> IF opt /\ ~Given(sl_cond) /\ ~IsNone(sl_level)
                     THEN (IF cp_dir = "C" THEN "cb" ELSE "ca") ELSE sl_cond]

\* Variant: the default stop conditions of calls and puts are exchanged.
decide_entry_and_sl_conds_exchanged(asset_type, cp_dir, entry_cond, entry_level, entry_tf, sl_cond, sl_level) ==
    LET ec1 == IF ~Given(entry_cond) /\ IsNone(entry_level) /\ ~Given(entry_tf)
               THEN "now" ELSE entry_cond
        opt == Lower(asset_type) = "option" /\ cp_dir \in {"C", "P"}
        ec2 == IF opt /\ ~Given(ec1) /\ ~IsNone(entry_level)
               THEN (IF cp_dir = "C" THEN "ca" ELSE "cb") ELSE ec1
        sc  == IF opt /\ ~Given(sl_cond) /\ ~IsNone(sl_level)
               THEN (IF cp_dir = "C" THEN "ca" ELSE "cb") ELSE sl_cond
    IN  [entry_cond |-> ec2, sl_cond |-> sc]

\* _decide_entry_and_sl_conds
decide_entry_and_sl_conds(asset_type, cp_dir, entry_cond, entry_level, entry_tf, sl_cond, sl_level) ==
    LET ec1 == IF ~Given(entry_cond) /\ IsNone(entry_level) /\ ~Given(entry_tf)
               THEN "now" ELSE entry_cond
        opt == Lower(asset_type) = "option" /\ cp_dir \in {"C", "P"}
        ec2 == IF opt /\ ~Given(ec1) /\ ~IsNone(entry_level)
               THEN (IF cp_dir = "C" THEN "ca" ELSE "cb") ELSE ec1
        sc  == IF opt /\ ~Given(sl_cond) /\ ~IsNone(sl_level)
               THEN (IF cp_dir = "C" THEN "cb" ELSE "ca") ELSE sl_cond
    IN  [entry_cond |-> ec2, sl_cond |-> sc]

\* Variant: a put is treated like a call.
compute_sl_tp_levels_bullish(asset_type, cp_dir, spot_price, defaults, existing_sl_level, existing_tp_level) ==
    LET sl_pct == Or(nt_safe_float(defaults.sl_pct), Num(0))
        tp_pct == Or(nt_safe_float(defaults.tp_pct), Num(0))
    IN  [sl_level |-> IF IsNone(existing_sl_level) /\ FPos(sl_pct)
                      THEN DMul(spot_price, DSub(Num(1), sl_pct)) ELSE existing_sl_level,
         tp_level |-> IF IsNone(existing_tp_level) /\ FPos(tp_pct)
                      THEN DMul(spot_price, DAdd(Num(1), tp_pct)) ELSE existing_tp_level]

\* _compute_sl_tp_levels
compute_sl_tp_levels(asset_type, cp_dir, spot_price, defaults, existing_sl_level, existing_tp_level) ==
    LET sl_pct == Or(nt_safe_float(defaults.sl_pct), Num(0))
        tp_pct == Or(nt_safe_float(defaults.tp_pct), Num(0))
        put    == Lower(asset_type) = "option" /\ cp_dir = "P"
        one    == Num(1)
        sl     == IF IsNone(existing_sl_level) /\ FPos(sl_pct)
                  THEN DMul(spot_price, IF put THEN DAdd(one, sl_pct) ELSE DSub(one, sl_pct))
                  ELSE existing_sl_level
        tp     == IF IsNone(existing_tp_level) /\ FPos(tp_pct)
                  THEN DMul(spot_price, IF put THEN DSub(one, tp_pct) ELSE DAdd(one, tp_pct))
                  ELSE existing_tp_level
    IN  [sl_level |-> sl, tp_level |-> tp]

\* Python's round() of a finite float: to the nearest integer, ties to even.
Round(x) ==
    LET fl == x[2] \div x[3]
        r2 == 2 * (x[2] - fl * x[3])
    IN  IF r2 < x[3] THEN fl
        ELSE IF r2 > x[3] THEN fl + 1
        ELSE IF fl % 2 = 0 THEN fl ELSE fl + 1

FAbs(x) == Frac(Abs(x[2]), x[3])
FLess(x, y) == x[2] * y[3] < y[2] * x[3]

\* min(seq, key=lambda s: abs(s - target)): the first element of a non-empty
\* sequence that is nearest to the target.
RECURSIVE MinBy(_, _, _)
MinBy(seq, target, best) ==
    IF seq = <<>> THEN best
    ELSE MinBy(Tail(seq), target,
               IF FLess(FAbs(FSub(Head(seq), target)), FAbs(FSub(best, target)))
               THEN Head(seq) ELSE best)

\* _snap_strike_to_tradier_chain: the listed strike nearest to the target;
\* with no chain (lookup failed or empty), the target rounded to 5 dollars.
snap_strike_to_tradier_chain(chain, target_strike) ==
    IF chain # <<>>
    THEN MinBy(Tail(chain), target_strike, Head(chain))
    ELSE Num(Round(FMul(target_strike, Frac(1, 5))) * 5)

\* _snap_expiry_to_tradier: dates are days from today.  The listed expiry
\* nearest to today + target_days, future ones preferred; with no list
\* (lookup failed or empty), today + target_days.
snap_expiry_to_tradier(listed, target_days) ==
    LET future == SelectSeq(listed, LAMBDA d : d >= 0)
        pool   == IF future # <<>> THEN future ELSE listed
        days   == [i \in 1..Len(pool) |-> Num(pool[i])]
    IN  IF listed = <<>> THEN target_days
        ELSE MinBy(Tail(days), Num(target_days), Head(days))[2]

\* _build_occ: root + YYMMDD + C/P + 8-digit strike, kept as its parts.
build_occ(symbol, expiry_date, cp_dir, strike) ==
    <<Upper(symbol), expiry_date, IF cp_dir = "P" THEN "P" ELSE "C",
      Round(FMul(strike, Num(1000)))>>


\* _compute_option_strike_and_expiry
compute_option_strike_and_expiry(row, defaults, spot, cp_dir, chain, listed) ==
    LET user_strike == nt_safe_float(row.strike)
        strike_pct  == Or(nt_safe_float(defaults.option_strike_pct), Frac(5, 100))
        target      == IF ~IsNone(user_strike) THEN user_strike
                       ELSE IF cp_dir = "P" THEN FMul(spot, FSub(Num(1), strike_pct))
                       ELSE FMul(spot, FAdd(Num(1), strike_pct))
        weeks       == IF Truthy(defaults.expiry_weeks) THEN defaults.expiry_weeks[2] ELSE 3
        expiry_date == IF IsNum(row.expiry) THEN row.expiry[2]
                       ELSE snap_expiry_to_tradier(listed, weeks * 7)
        final       == snap_strike_to_tradier_chain(chain, target)
    IN  [strike |-> final, expiry |-> expiry_date,
         occ |-> build_occ(row.symbol, expiry_date, cp_dir, final)]

NoOcc == <<"", 0, "", 0>>

\* _build_active_trade_row returned None.
NoRow == [built |-> FALSE]

\* _build_active_trade_row(row, defaults, spot_price); `uuid` is the value
\* uuid.uuid4() returns, chain and listed are what the option-chain and
\* expirations lookups return.  `req` is not a column: it records the
\* new_trades row the active row was built from.
build_active_trade_row(row, defaults, spot_price, uuid, chain, listed) ==
    LET symbol     == IF row.symbol = NULL THEN "" ELSE Upper(row.symbol)
        asset_type == IF row.asset_type = NULL THEN "" ELSE Lower(row.asset_type)
        entry_tf   == row.entry_tf
        Active(qty, cp_db, cp_dir, entry_lv0, sl_tf0, conds, sltp, opt) ==
            [built |-> TRUE,
             req |-> row.id,
             id |-> uuid,
             symbol |-> symbol,
             asset_type |-> asset_type,
             status |-> "nt-waiting",
             qty |-> qty,
             cp |-> cp_db,
             strike |-> IF asset_type = "option" THEN opt.strike ELSE None,
             expiry |-> IF asset_type = "option" THEN Num(opt.expiry) ELSE None,
             occ |-> IF asset_type = "option" THEN opt.occ ELSE NoOcc,
             entry_type |-> OrStr(row.entry_type, asset_type),
             entry_cond |-> conds.entry_cond,
             entry_level |-> IF conds.entry_cond = "now" /\ IsNone(entry_lv0)
                             THEN spot_price ELSE entry_lv0,
             entry_tf |-> entry_tf,
             sl_type |-> OrStr(row.sl_type, "equity"),
             sl_cond |-> IF asset_type = "option" /\ ~IsNone(sltp.sl_level)
                            /\ conds.sl_cond = NULL
                         THEN (IF cp_dir = "C" THEN "cb" ELSE "ca") ELSE conds.sl_cond,
             sl_level |-> sltp.sl_level,
             sl_tf |-> IF ~IsNone(sltp.sl_level) /\ ~Given(sl_tf0)
                       THEN OrStr(entry_tf, OrStr(defaults.entry_tf, "5m")) ELSE sl_tf0,
             tp_type |-> OrStr(row.tp_type, "equity"),
             tp_level |-> sltp.tp_level,
             manage |-> OrStr(row.manage, "Y"),
             trade_type |-> parse_trade_type(row.trade_type)]
        Levels(qty, cp_db, cp_dir, entry_lv0, sl_lv0) ==
            Active(qty, cp_db, cp_dir, entry_lv0, OrStr(row.sl_tf, entry_tf),
                   decide_entry_and_sl_conds(asset_type, cp_dir, row.entry_cond,
                       entry_lv0, entry_tf, row.sl_cond, sl_lv0),
                   compute_sl_tp_levels(asset_type, cp_dir, spot_price, defaults,
                       sl_lv0, nt_safe_float(row.tp_level)),
                   compute_option_strike_and_expiry(row, defaults, spot_price,
                       cp_dir, chain, listed))
        Checked(qty, cp) ==
            IF symbol = "" THEN NoRow
            ELSE IF asset_type \notin {"equity", "option"} THEN NoRow
            ELSE IF qty <= 0 THEN NoRow
            ELSE IF asset_type = "option" /\ cp[2] \notin {"C", "P"} THEN NoRow
            ELSE Levels(qty, cp[1], cp[2], nt_safe_float(row.entry_level),
                        nt_safe_float(row.sl_level))
    IN  Checked(decide_qty(row, defaults), parse_cp(row.cp))

(***************************************************************************)
(* The tables of the importer and what they may hold.                      *)
(***************************************************************************)
\* A request with nothing but an id, a symbol and an asset type.
BareRequest(id, symbol, asset_type) ==
    [id |-> id, symbol |-> symbol, asset_type |-> asset_type, trade_type |-> NULL,
     cp |-> NULL, qty |-> None, entry_type |-> NULL, entry_cond |-> NULL,
     entry_level |-> None, entry_tf |-> NULL, sl_type |-> NULL, sl_cond |-> NULL,
     sl_level |-> None, sl_tf |-> NULL, tp_type |-> NULL, tp_level |-> None,
     strike |-> None, expiry |-> None, manage |-> NULL]

\* The requests a user may put into new_trades.
Requests ==
    { BareRequest("r1", "spy", "equity"),
      [BareRequest("r2", "spy", "Option") EXCEPT !.cp = "C", !.qty = Num(2)],
      [BareRequest("r3", "spy", "option") EXCEPT !.trade_type = "swing"],
      [BareRequest("r4", "spy", "equity") EXCEPT !.qty = Num(0)],
      [BareRequest("r5", "qqq", "equity") EXCEPT !.entry_level = Inf] }

\* The rows of trade_defaults.
TradeDefaults ==
    { [sl_pct |-> Frac(5, 100), tp_pct |-> Frac(10, 100), default_qty |-> Num(1),
       entry_tf |-> "15m", option_strike_pct |-> None, expiry_weeks |-> None] }

\* The prices _get_underlier_spot may resolve (spot table, else live quotes).
SpotPrices == {Num(100)}

\* What the option-chain lookup may return: listed strikes, or nothing.
Chains == {<<>>, <<Num(100), Num(105), Num(110)>>}

\* What the expirations lookup may return: days from today, or nothing.
Expirations == {<<>>, <<-2, 19, 26>>}

\* What the row builder is applied to: a request with or without a
\* direction, entry fields and levels of its own, a trade_defaults row with
\* percentages that are positive, zero, negative, NaN or missing, and a spot
\* price; the broker lists nothing.
TradeInputs ==
    {[row |-> [BareRequest("t1", "spy", a) EXCEPT !.cp = cp, !.entry_cond = ec,
                   !.entry_level = el, !.entry_tf = etf, !.sl_level = sl, !.tp_level = tp],
      defaults |-> [d EXCEPT !.sl_pct = pct[1], !.tp_pct = pct[2]],
      spot |-> sp] :
        a \in {"equity", "option"}, cp \in {NULL, "call", "put"},
        ec \in {NULL, "ca"}, el \in {None, Num(101)}, etf \in {NULL, "5m"},
        sl \in {None, Num(97)}, tp \in {None, Num(120)},
        d \in TradeDefaults,
        pct \in {<<Frac(5, 100), Frac(10, 100)>>, <<None, Num(0)>>,
                 <<Frac(-5, 100), NaN>>, <<Num(0), Frac(1, 3)>>},
        sp \in {Num(100), Frac(25037, 100)}}

\* More of what the row builder is applied to: requests with and without a
\* symbol, a known asset type, a known direction, a usable quantity, a stop
\* with or without its condition and timeframe, and defaults with or
\* without a quantity, a timeframe and percentages.
ShapeInputs ==
    {[row |-> [BareRequest("t2", sym, a) EXCEPT !.cp = cp, !.qty = q, !.entry_tf = etf,
                   !.sl_level = sl, !.sl_tf = stf, !.sl_cond = sc],
      defaults |-> d,
      spot |-> Num(100)] :
        sym \in {"spy", ""}, a \in {"equity", "Option", "future"},
        cp \in {NULL, "C", "Put", "x"},
        q \in {None, Num(0), Frac(1, 2), Num(2)},
        etf \in {NULL, "5m"}, sl \in {None, Num(97)},
        stf \in {NULL, "", "1h"}, sc \in {NULL, "", "cb"},
        d \in TradeDefaults \cup
              {[x EXCEPT !.sl_pct = None, !.tp_pct = None, !.default_qty = None,
                         !.entry_tf = NULL] : x \in TradeDefaults}}

(***************************************************************************)
(* run_new_trades_import_loop (bot/new_trade_importer.py).                 *)
(***************************************************************************)
MaxPending == 3
MaxInserts == 3

\* The results of handling one row that leave it for a later cycle without
\* having written anything.
Skipped == {"no_defaults", "no_spot", "build_failed", "insert_error"}

\* What one pass over a row wrote, by its result: the insert (step 4) ran
\* to the end, and the delete (step 5) after it did.
RowInserted(result) == result \in {"delete_error", "imported"}

\* Variant: the delete also runs when the insert raised.
RowDeletedDespiteInsertError(result) == result \in {"insert_error", "imported"}

RowDeleted(result) == result = "imported"

\* A user files a request.
SubmitTrade(requests) ==
    /\ Cardinality(new_trades) < MaxPending
    /\ \E r \in requests :
         /\ \A x \in new_trades : x.id # r.id
         /\ \A a \in active_trades : a.req # r.id
         /\ new_trades' = new_trades \cup {r}
    /\ step' = NoStep
    /\ last_end' = NoEnd
    /\ UNCHANGED <<main, pc, active_trades, rows, row_idx, uuid_next,
                   pos_vars, spot_vars, ind_vars, build_vars, call_vars>>

\* The loop wakes up and reads new_trades (_fetch_pending_new_trades gives
\* [] when the select raises); with no rows it sleeps.
ImportBegin ==
    /\ pc["import"] = "sleep"
    /\ \E fetched \in {new_trades, {}} :
         IF fetched = {}
         THEN /\ rows' = <<>>
              /\ \E e \in Durations : IdleSleep("import", e)
         ELSE /\ rows' = SeqOfSet(fetched)
              /\ Goto("import", "rows")
    /\ row_idx' = 1
    /\ UNCHANGED <<new_trades, active_trades, uuid_next, pos_vars, spot_vars, ind_vars, build_vars, call_vars>>

\* Control after one row was handled, which log records; `site` is where
\* an exception was raised, if one was ("" if none).
AfterRow(site, last, log) ==
    IF site # "" /\ Handler("import", site) = "none" THEN
        /\ EscapeWith("import", log)
        /\ UNCHANGED <<rows, row_idx>>
    ELSE IF site # "" /\ Handler("import", site) = "loop" THEN
        /\ \E e \in Durations : EndIterationWith("import", "error", e, NoInfo, log)
        /\ rows' = <<>>
        /\ row_idx' = 1
    ELSE IF last THEN
        /\ \E e \in Durations : EndIterationWith("import", "ok", e, NoInfo, log)
        /\ rows' = <<>>
        /\ row_idx' = 1
    ELSE
        /\ GotoWith("import", "rows", log)
        /\ row_idx' = row_idx + 1
        /\ UNCHANGED rows

\* One pass of `for row in rows`: defaults, spot, build, insert, delete.
\* trade_defaults is what table trade_defaults may hold for the row,
\* d is the trade_defaults row found (none: {}), sp the spot resolved,
\* chain and listed what the broker lists (asked for options only),
\* ins / del say whether the insert / the delete succeed.
ImportRow(trade_defaults) ==
    /\ pc["import"] = "rows"
    /\ LET row  == rows[row_idx]
           last == row_idx = Len(rows)
           option == row.asset_type # NULL /\ Lower(row.asset_type) = "option"
           Site(result) == CASE result = "insert_error" -> "insert_active_trade"
                             [] result = "delete_error" -> "delete_new_trade"
                             [] OTHER -> ""
           Write(built, result) ==
               /\ RowInserted(result) => uuid_next < MaxInserts
               /\ active_trades' =
                     IF RowInserted(result)
                     THEN active_trades \cup {built} ELSE active_trades
               /\ uuid_next' =
                     IF RowInserted(result) THEN uuid_next + 1 ELSE uuid_next
               /\ new_trades' =
                     IF RowDeleted(result)
                     THEN {x \in new_trades : x.id # row.id} ELSE new_trades
               /\ AfterRow(Site(result), last,
                           [loop |-> "import", id |-> row.id, result |-> result,
                            left |-> Len(rows) - row_idx])
           Handle(ds, sp, built) ==
               \E ins \in BOOLEAN, del \in BOOLEAN :
                   Write(built,
                         IF ds = {} THEN "no_defaults"
                         ELSE IF IsNone(sp) \/ ~Given(row.symbol) THEN "no_spot"
                         ELSE IF ~built.built THEN "build_failed"
                         ELSE IF ~ins THEN "insert_error"
                         ELSE IF ~del THEN "delete_error"
                         ELSE "imported")
       IN  \E ds \in {{}} \cup {{d} : d \in trade_defaults},
              sp \in {None} \cup SpotPrices,
              chain \in (IF option THEN Chains ELSE {<<>>}),
              listed \in (IF option THEN Expirations ELSE {<<>>}) :
               Handle(ds, sp, build_active_trade_row(row, CHOOSE x \in ds : TRUE, sp,
                                                     uuid_next + 1, chain, listed))
    /\ UNCHANGED <<pos_vars, spot_vars, ind_vars, build_vars, call_vars>>

\* No request was given to the row builder.
NoTrade == <<>>

\* A call of _build_active_trade_row.
BuildRow ==
    /\ trade_in # NoTrade
    /\ trade_out = Pending
    /\ trade_out' = build_active_trade_row(trade_in.row, trade_in.defaults, trade_in.spot,
                                           1, <<>>, <<>>)
    /\ UNCHANGED <<trade_in, levels_out, loop_vars, pos_vars, imp_vars, spot_vars, ind_vars, call_vars>>

\* A call of _compute_sl_tp_levels, with the arguments the row builder
\* passes.
ComputeLevels ==
    /\ trade_in # NoTrade
    /\ levels_out = Pending
    /\ levels_out' = compute_sl_tp_levels(Lower(trade_in.row.asset_type),
                          parse_cp(trade_in.row.cp)[2], trade_in.spot, trade_in.defaults,
                          nt_safe_float(trade_in.row.sl_level),
                          nt_safe_float(trade_in.row.tp_level))
    /\ UNCHANGED <<trade_in, trade_out, loop_vars, pos_vars, imp_vars, spot_vars, ind_vars, call_vars>>

(***************************************************************************)
(* The indicator engine (bot/spot_indicators.py).  A candle is a record    *)
(* [ts, open, high, low, close, volume] of integers; list indices are      *)
(* Python's (from 0, negative ones counting from the end).                 *)
(***************************************************************************)
\* Python's None where a dict is expected, and the empty dict {}.
NoPoint == <<>>
EmptyDict == <<>>

\* One pass of find_swings' loop body and the passes after it: the swing
\* highs and lows found from index i on, appended to highs and lows.
RECURSIVE SwingsFrom(_, _, _, _, _)
SwingsFrom(cs, fractal, i, highs, lows) ==
    IF i >= Len(cs) - fractal THEN [swing_highs |-> highs, swing_lows |-> lows]
    ELSE IF \E k \in 1..fractal : ~InRange(cs, i - k) \/ ~InRange(cs, i + k)
    THEN Raised("IndexError")
    ELSE LET hi == At(cs, i).high
             lo == At(cs, i).low
             is_high == \A k \in 1..fractal :
                            hi > At(cs, i - k).high /\ hi > At(cs, i + k).high
             is_low  == \A k \in 1..fractal :
                            lo < At(cs, i - k).low /\ lo < At(cs, i + k).low
             point(price) == [price |-> price, ts |-> At(cs, i).ts]
         IN  SwingsFrom(cs, fractal, i + 1,
                        IF is_high THEN Append(highs, point(hi)) ELSE highs,
                        IF is_low THEN Append(lows, point(lo)) ELSE lows)

\* Variant: a bar that only ties a neighbour still counts as a swing.
find_swings_ties(cs, fractal) ==
    LET idx == {i \in fractal..(Len(cs) - fractal - 1) : TRUE}
        hs == {i \in idx : \A k \in 1..fractal :
                   At(cs, i).high >= At(cs, i - k).high /\ At(cs, i).high >= At(cs, i + k).high}
        ls == {i \in idx : \A k \in 1..fractal :
                   At(cs, i).low <= At(cs, i - k).low /\ At(cs, i).low <= At(cs, i + k).low}
        seq(S, f(_)) == [j \in 1..Cardinality(S) |->
                           LET i == CHOOSE x \in S : Cardinality({y \in S : y < x}) = j - 1
                           IN  [price |-> f(i), ts |-> At(cs, i).ts]]
    IN  [swing_highs |-> seq(hs, LAMBDA i : At(cs, i).high),
         swing_lows  |-> seq(ls, LAMBDA i : At(cs, i).low)]

find_swings(cs, fractal) ==
    IF Len(cs) < 2 * fractal + 1
    THEN [swing_highs |-> <<>>, swing_lows |-> <<>>]
    ELSE SwingsFrom(cs, fractal, fractal, <<>>, <<>>)

\* Variant: the two last points in the order of the list.
pick_last_two_in_order(points) ==
    IF points = <<>> THEN <<NoPoint, NoPoint>>
    ELSE IF Len(points) = 1 THEN <<At(points, -1), NoPoint>>
    ELSE <<At(points, -2), At(points, -1)>>

\* _pick_last_two: <<last, previous>>.
pick_last_two(points) ==
    IF points = <<>> THEN <<NoPoint, NoPoint>>
    ELSE IF Len(points) = 1 THEN <<At(points, -1), NoPoint>>
    ELSE <<At(points, -1), At(points, -2)>>

\* A dict-or-None is truthy when it is a non-empty dict.
Present(point) == point # NoPoint

\* Variant: "HL" only for a strictly lower high.
classify_structure_lower_high(last_high, prev_high, last_low, prev_low) ==
    IF ~(Present(last_high) /\ Present(prev_high) /\ Present(last_low) /\ Present(prev_low))
    THEN "unknown"
    ELSE LET lh == last_high.price
             ph == prev_high.price
             ll == last_low.price
             pl == prev_low.price
         IN  IF lh > ph /\ ll > pl THEN "HH"
             ELSE IF lh < ph /\ ll > pl THEN "HL"
             ELSE IF lh < ph /\ ll >= pl THEN "LH"
             ELSE IF lh < ph /\ ll < pl THEN "LL"
             ELSE "range"

classify_structure(last_high, prev_high, last_low, prev_low) ==
    IF ~(Present(last_high) /\ Present(prev_high) /\ Present(last_low) /\ Present(prev_low))
    THEN "unknown"
    ELSE LET lh == last_high.price
             ph == prev_high.price
             ll == last_low.price
             pl == prev_low.price
             up_hi == lh > ph
             up_lo == ll > pl
             down_hi == lh < ph
             down_lo == ll < pl
         IN  IF up_hi /\ up_lo THEN "HH"
             ELSE IF ~up_hi /\ up_lo THEN "HL"
             ELSE IF down_hi /\ ~down_lo THEN "LH"
             ELSE IF down_hi /\ down_lo THEN "LL"
             ELSE "range"

\* Variant: the bearish test is an elif of the bullish one.
RECURSIVE FvgsFromExclusive(_, _, _)
FvgsFromExclusive(cs, i, fvgs) ==
    IF i >= Len(cs) - 1 THEN fvgs
    ELSE LET prev == At(cs, i - 1)
             nxt  == At(cs, i + 1)
             n    == Len(cs)
             bull == [type |-> "bull", top |-> nxt.low, bottom |-> prev.high,
                      age |-> n - i, quality |-> 1]
             bear == [type |-> "bear", top |-> prev.low, bottom |-> nxt.high,
                      age |-> n - i, quality |-> 1]
         IN  FvgsFromExclusive(cs, i + 1,
                 IF prev.high < nxt.low THEN Append(fvgs, bull)
                 ELSE IF prev.low > nxt.high THEN Append(fvgs, bear)
                 ELSE fvgs)

\* Variant: age is the distance to the last candle, n - 1 - i.
RECURSIVE FvgsFromLastCandle(_, _, _)
FvgsFromLastCandle(cs, i, fvgs) ==
    IF i >= Len(cs) - 1 THEN fvgs
    ELSE LET prev == At(cs, i - 1)
             nxt  == At(cs, i + 1)
             n    == Len(cs)
             bull == [type |-> "bull", top |-> nxt.low, bottom |-> prev.high,
                      age |-> n - 1 - i, quality |-> 1]
             bear == [type |-> "bear", top |-> prev.low, bottom |-> nxt.high,
                      age |-> n - 1 - i, quality |-> 1]
             with_bull == IF prev.high < nxt.low THEN Append(fvgs, bull) ELSE fvgs
             with_bear == IF prev.low > nxt.high THEN Append(with_bull, bear) ELSE with_bull
         IN  FvgsFromLastCandle(cs, i + 1, with_bear)

\* compute_fvgs' loop from index i on, appended to fvgs.  quality is 1.0.
RECURSIVE FvgsFrom(_, _, _)
FvgsFrom(cs, i, fvgs) ==
    IF i >= Len(cs) - 1 THEN fvgs
    ELSE LET prev == At(cs, i - 1)
             nxt  == At(cs, i + 1)
             n    == Len(cs)
             bull == [type |-> "bull", top |-> nxt.low, bottom |-> prev.high,
                      age |-> n - i, quality |-> 1]
             bear == [type |-> "bear", top |-> prev.low, bottom |-> nxt.high,
                      age |-> n - i, quality |-> 1]
             with_bull == IF prev.high < nxt.low THEN Append(fvgs, bull) ELSE fvgs
             with_bear == IF prev.low > nxt.high THEN Append(with_bull, bear) ELSE with_bull
         IN  FvgsFrom(cs, i + 1, with_bear)

\* Variant: the scan starts one bar late.
compute_fvgs_late(cs) == IF Len(cs) < 3 THEN <<>> ELSE FvgsFrom(cs, 2, <<>>)

compute_fvgs(cs) == IF Len(cs) < 3 THEN <<>> ELSE FvgsFrom(cs, 1, <<>>)

\* abs(b - a) / max(a, 1e-6) <= tol, for integral a, b and tol = <<num, den>>
\* below 1: with a < 1 the divisor is 1e-6 and only b = a passes.
WithinTol(a, b, tol) ==
    IF a >= 1 THEN Abs(b - a) * tol[2] <= tol[1] * a ELSE b = a

\* The first loop of compute_liquidity from index i on: the midpoints of the
\* consecutive pairs of vals that are within tol, appended to levels.
RECURSIVE EqualLevelsFrom(_, _, _, _)
EqualLevelsFrom(vals, i, tol, levels) ==
    IF i >= Len(vals) THEN levels
    ELSE LET v0 == At(vals, i - 1)
             v1 == At(vals, i)
         IN  EqualLevelsFrom(vals, i + 1, tol,
                 IF WithinTol(v0, v1, tol)
                 THEN Append(levels, Frac(v0 + v1, 2)) ELSE levels)

\* The second loop of compute_liquidity from index i on.
RECURSIVE SweepsFrom(_, _, _, _, _)
SweepsFrom(cs, i, equal_highs, equal_lows, sweeps) ==
    IF i >= Len(cs) THEN sweeps
    ELSE LET h(j) == At(cs, j).high
             l(j) == At(cs, j).low
             high == [type |-> "high", price |-> h(i), ts |-> At(cs, i).ts]
             low  == [type |-> "low", price |-> l(i), ts |-> At(cs, i).ts]
             with_high ==
                 IF Num(h(i - 2)) \in Range(equal_highs) /\ h(i) > h(i - 1) /\ h(i - 1) > h(i - 2)
                 THEN Append(sweeps, high) ELSE sweeps
             with_low ==
                 IF Num(l(i - 2)) \in Range(equal_lows) /\ l(i) < l(i - 1) /\ l(i - 1) < l(i - 2)
                 THEN Append(with_high, low) ELSE with_high
         IN  SweepsFrom(cs, i + 1, equal_highs, equal_lows, with_low)

\* sorted(set(levels))
RECURSIVE SortedSet(_)
SortedSet(S) ==
    IF S = {} THEN <<>>
    ELSE LET m == CHOOSE x \in S : \A y \in S : ~FLess(y, x)
         IN  <<m>> \o SortedSet(S \ {m})

\* Variant: the scan for sweeps starts at index 3.
compute_liquidity_late_sweeps(cs, tol) ==
    LET highs == [i \in 1..Len(cs) |-> cs[i].high]
        lows  == [i \in 1..Len(cs) |-> cs[i].low]
        equal_highs == EqualLevelsFrom(highs, 1, tol, <<>>)
        equal_lows  == EqualLevelsFrom(lows, 1, tol, <<>>)
    IN  IF Len(cs) < 3
        THEN [equal_highs |-> <<>>, equal_lows |-> <<>>, sweeps |-> <<>>]
        ELSE [equal_highs |-> SortedSet(Range(equal_highs)),
              equal_lows  |-> SortedSet(Range(equal_lows)),
              sweeps      |-> SweepsFrom(cs, 3, equal_highs, equal_lows, <<>>)]

compute_liquidity(cs, tol) ==
    LET highs == [i \in 1..Len(cs) |-> cs[i].high]
        lows  == [i \in 1..Len(cs) |-> cs[i].low]
        equal_highs == EqualLevelsFrom(highs, 1, tol, <<>>)
        equal_lows  == EqualLevelsFrom(lows, 1, tol, <<>>)
    IN  IF Len(cs) < 3
        THEN [equal_highs |-> <<>>, equal_lows |-> <<>>, sweeps |-> <<>>]
        ELSE [equal_highs |-> SortedSet(Range(equal_highs)),
              equal_lows  |-> SortedSet(Range(equal_lows)),
              sweeps      |-> SweepsFrom(cs, 2, equal_highs, equal_lows, <<>>)]

\* sorted(items, key = volume, reverse = desc) of <<bin, volume>> pairs.
\* Python's sort is stable: pairs of equal volume keep their order.
RECURSIVE StableSort(_, _)
StableSort(items, desc) ==
    IF items = <<>> THEN <<>>
    ELSE LET x    == At(items, -1)
             rest == StableSort(SubSeq(items, 1, Len(items) - 1), desc)
             first(a) == IF desc THEN a[2] >= x[2] ELSE a[2] <= x[2]
             keep == {j \in 0..Len(rest) : \A k \in 1..j : first(rest[k])}
             at   == CHOOSE j \in keep : \A k \in keep : k <= j
         IN  SubSeq(rest, 1, at) \o <<x>> \o SubSeq(rest, at + 1, Len(rest))

\* Variant: the index is not capped.
BinOfUncapped(c, lo, width, bins) == ((c - lo) * width[3]) \div width[2]

\* idx = int((c - lo) / width), capped at bins - 1: the quotient rounded
\* toward zero (c >= lo, width > 0).
BinOf(c, lo, width, bins) ==
    LET q == ((c - lo) * width[3]) \div width[2]
    IN  IF q >= bins THEN bins - 1 ELSE q

\* vol_bins[b]: the volume of the candles whose close falls in bin b.
RECURSIVE BinVolume(_, _, _, _, _)
BinVolume(cs, lo, width, bins, b) ==
    IF cs = <<>> THEN 0
    ELSE (IF BinOf(Head(cs).close, lo, width, bins) = b THEN Head(cs).volume ELSE 0)
         + BinVolume(Tail(cs), lo, width, bins, b)

\* compute_volume_profile.  width is the fraction (hi - lo) / bins;
\* int((c - lo) / width) is the quotient rounded toward zero.
compute_volume_profile(cs, bins) ==
    IF cs = <<>> THEN EmptyDict
    ELSE
    LET closes == {cs[i].close : i \in 1..Len(cs)}
        lo == CHOOSE c \in closes : \A d \in closes : c <= d
        hi == CHOOSE c \in closes : \A d \in closes : c >= d
    IN  IF hi <= lo THEN EmptyDict
        ELSE IF bins = 0 THEN Raised("ZeroDivisionError")
        ELSE
        LET width == Frac(hi - lo, bins)
            indexed == [j \in 1..bins |-> <<j - 1, BinVolume(cs, lo, width, bins, j - 1)>>]
            nonzero == SelectSeq(indexed, LAMBDA x : x[2] > 0)
            sorted_by_vol == StableSort(nonzero, TRUE)
            n == Len(sorted_by_vol)
            hvn_bins == SubSeq(sorted_by_vol, 1, IF n < 3 THEN n ELSE 3)
            lvn_bins == StableSort(SubSeq(sorted_by_vol, Max(1, n - 2), n), FALSE)
            low_of(i) == FAdd(Num(lo), FMul(Num(i), width))
            bin_range(i) == [low |-> low_of(i), high |-> FAdd(low_of(i), width)]
            poc_bin == At(hvn_bins, 0)[1]
        IN  IF ~FPos(width) THEN EmptyDict
            ELSE IF nonzero = <<>> THEN EmptyDict
            ELSE [hvn |-> [j \in 1..Len(hvn_bins) |-> bin_range(hvn_bins[j][1])],
                  lvn |-> [j \in 1..Len(lvn_bins) |-> bin_range(lvn_bins[j][1])],
                  poc |-> FAdd(low_of(poc_bin), FMul(width, Frac(1, 2)))]

\* The loop of _ema with alpha = p/q, from the values vs on.  prev is the
\* previous average times qk, a power of q; the result lists each average
\* times the next power of q: prev' = p * v * qk + (q - p) * prev.
RECURSIVE EmaFrom(_, _, _, _, _)
EmaFrom(vs, p, q, qk, prev) ==
    IF vs = <<>> THEN <<>>
    ELSE LET next == BigAdd(BigTimes(qk, p * Head(vs), 0), BigTimes(prev, q - p, 0), 0)
             qk1  == BigTimes(qk, q, 0)
         IN  <<next>> \o EmaFrom(Tail(vs), p, q, qk1, next)

\* Variant: the average is never updated after its seed values[0].
ema_seed_only(values, period) ==
    [q |-> 1, xs |-> [j \in 1..Len(values) |-> BigOf(values[1])]]

\* _ema: alpha = 2 / (period + 1) = p/q; element j (from 0) of the result
\* stands for xs[j] / q^(j+1).  With period <= 1 or no values, a copy of the
\* values (q = 1).
ema(values, period) ==
    IF values = <<>> \/ period <= 1
    THEN [q |-> 1, xs |-> [j \in 1..Len(values) |-> BigOf(values[j])]]
    ELSE LET g == GCD(2, period + 1)
             p == 2 \div g
             q == (period + 1) \div g
         IN  [q |-> q, xs |-> EmaFrom(values, p, q, <<1>>, BigOf(values[1]))]

\* compute_trend after its guard.  Closes are not negative.
TrendOf(cs) ==
    LET closes == [i \in 1..Len(cs) |-> cs[i].close]
        n == Len(closes)
        ema_fast == ema(closes, 9)
        ema_slow == ema(closes, 21)
        qf == ema_fast.q
        qs == ema_slow.q
        ef == At(ema_fast.xs, -1)
        es == At(ema_slow.xs, -1)
        \* ef - ema_fast[-6], both over qf^n
        slope_val == IF n > 6 THEN BigCmp(ef, BigTimesPow(At(ema_fast.xs, -6), qf, 5)) ELSE 0
        slope == IF slope_val > 0 THEN "up" ELSE IF slope_val < 0 THEN "down" ELSE "flat"
        \* ef and es over (qf * qs)^n
        ef_s == BigTimesPow(ef, qs, n)
        es_f == BigTimesPow(es, qf, n)
        \* es >= 1e-6, i.e. es * 10^6 >= qs^n
        es_is_max == BigCmp(BigTimes(BigTimes(es, 1000, 0), 1000, 0),
                            BigTimesPow(<<1>>, qs, n)) >= 0
        \* (ef - es) / max(es, 1e-6)
        momentum ==
            [sign |-> BigCmp(ef_s, es_f),
             num  |-> IF es_is_max THEN BigDiff(ef_s, es_f)
                      ELSE BigTimes(BigTimes(BigDiff(ef_s, es_f), 1000, 0), 1000, 0),
             den  |-> IF es_is_max THEN es_f ELSE BigTimesPow(BigTimesPow(<<1>>, qs, n), qf, n)]
    IN  IF ~InRange(ema_fast.xs, -1) \/ ~InRange(ema_slow.xs, -1) THEN Raised("IndexError")
        ELSE IF n > 6 /\ ~InRange(ema_fast.xs, -6) THEN Raised("IndexError")
        ELSE [ema_fast |-> [sign |-> 1, num |-> ef, den |-> BigTimesPow(<<1>>, qf, n)],
              ema_slow |-> [sign |-> 1, num |-> es, den |-> BigTimesPow(<<1>>, qs, n)],
              slope    |-> slope,
              momentum |-> momentum]

\* Variant: the guard on the number of candles is missing.
compute_trend_unguarded(cs) == TrendOf(cs)

\* The sign of the latest fast EMA against the fast EMA `back` bars earlier,
\* as a slope.
SlopeAgainst(cs, back) ==
    LET e == ema([i \in 1..Len(cs) |-> cs[i].close], 9)
        c == BigCmp(At(e.xs, -1), BigTimesPow(At(e.xs, -1 - back), e.q, back))
    IN  IF c > 0 THEN "up" ELSE IF c < 0 THEN "down" ELSE "flat"

\* Variant: the slope compares with ema_fast[-7].
compute_trend_six_back(cs) ==
    IF Len(cs) < 20 THEN EmptyDict ELSE [TrendOf(cs) EXCEPT !.slope = SlopeAgainst(cs, 6)]

compute_trend(cs) == IF Len(cs) < 20 THEN EmptyDict ELSE TrendOf(cs)

\* The key set of a snapshot.
SnapshotKeys ==
    {"timeframe", "use_case", "structure_state", "swings", "fvgs", "liquidity",
     "volume_profile", "trend", "extras"}

\* tol = 0.0005 and bins = 20 are the defaults compute_spot_snapshot leaves
\* to compute_liquidity and compute_volume_profile.
compute_spot_snapshot(cs, timeframe, use_case, fractal) ==
    LET swings_info == find_swings(cs, fractal)
        highs == pick_last_two(swings_info.swing_highs)
        lows  == pick_last_two(swings_info.swing_lows)
        volume_profile == compute_volume_profile(cs, 20)
        trend == compute_trend(cs)
    IN  IF HasRaised(swings_info) THEN swings_info
        ELSE IF HasRaised(volume_profile) THEN volume_profile
        ELSE IF HasRaised(trend) THEN trend
        ELSE [timeframe |-> timeframe,
              use_case |-> use_case,
              structure_state |-> classify_structure(highs[1], highs[2], lows[1], lows[2]),
              swings |-> [last_high |-> highs[1], prev_high |-> highs[2],
                          last_low |-> lows[1], prev_low |-> lows[2]],
              fvgs |-> compute_fvgs(cs),
              liquidity |-> compute_liquidity(cs, <<5, 10000>>),
              volume_profile |-> volume_profile,
              trend |-> trend,
              extras |-> EmptyDict]

(***************************************************************************)
(* Candle inputs and the calls of the indicator engine.                    *)
(***************************************************************************)
MaxBars == 5
MaxFractal == 2

\* Bar shapes: a low bar, a middle bar, a high bar whose low clears the low
\* bar's high, and a wide bar without volume.
Bars ==
    {[open |-> 9, high |-> 10, low |-> 8, close |-> 9, volume |-> 100],
     [open |-> 10, high |-> 12, low |-> 9, close |-> 11, volume |-> 200],
     [open |-> 13, high |-> 15, low |-> 12, close |-> 14, volume |-> 100],
     [open |-> 9, high |-> 12, low |-> 8, close |-> 9, volume |-> 0]}

\* The candle list of a sequence of bars; ts is the position, from 0.
Candles(bars) ==
    [i \in 1..Len(bars) |->
        [ts |-> i - 1, open |-> bars[i].open, high |-> bars[i].high,
         low |-> bars[i].low, close |-> bars[i].close, volume |-> bars[i].volume]]

ShortInputs == UNION {{Candles(b) : b \in [1..n -> Bars]} : n \in 0..MaxBars}

\* Longer series of n candles around the close c(i), i from 0.
Series(shape, n) ==
    LET c(i) == CASE shape = "rising"  -> 10 + i
                  [] shape = "falling" -> 100 - i
                  [] shape = "flat"    -> 50
                  [] shape = "zigzag"  -> 50 + 3 * ((i % 4) * (4 - (i % 4))) - (i \div 8)
                  [] shape = "peak"    -> IF i < n - 3 THEN 10 + i ELSE 2 * (n - 3) - i + 9
                  [] shape = "stairs"  -> 10 + 3 * i
                  [] shape = "concave" -> 2000 - (40 - i) * (40 - i)
    IN  [i \in 1..n |->
            [ts |-> i - 1, open |-> c(i - 1), high |-> c(i - 1) + 1, low |-> c(i - 1) - 1,
             close |-> c(i - 1), volume |-> 100 + 10 * (i % 3)]]

Shapes == {"rising", "falling", "flat", "zigzag", "peak", "stairs", "concave"}

LongInputs == {Series(shape, n) : shape \in Shapes, n \in {8, 19, 20, 30}}

\* Candles around a list of levels: high one above, low one below the level.
LevelCandles(xs) ==
    [i \in 1..Len(xs) |->
        [ts |-> i - 1, open |-> xs[i], high |-> xs[i] + 1, low |-> xs[i] - 1,
         close |-> xs[i], volume |-> 100]]

\* Six candles with two peaks (bars 1 and 3) and two troughs (bars 2 and 4),
\* in every order of the two peaks and of the two troughs.
StructureInputs ==
    {LevelCandles(<<7, p1, v1, p2, v2, 8>>) : p1 \in 10..12, p2 \in 10..12,
                                               v1 \in 4..6, v2 \in 4..6}

\* A bar as the vendor may report it, its low above its high: fetch_candles
\* takes over the vendor's numbers as they are.
CrossedBar == [open |-> 9, high |-> 7, low |-> 13, close |-> 9, volume |-> 100]

\* The lists of three candles with at least one crossed bar.
CrossedInputs ==
    {Candles(b) : b \in {c \in [1..3 -> Bars \cup {CrossedBar}] :
                             \E i \in 1..3 : c[i] = CrossedBar}}

\* Five candles whose highs are close to one another (within or just
\* outside the tolerance of compute_liquidity) and whose lows mirror the
\* highs, so that highs rise where lows fall.
SweepInputs ==
    {[i \in 1..5 |-> [ts |-> i - 1, open |-> h[i] - 1, high |-> h[i],
                      low |-> 8000 - h[i], close |-> h[i] - 1, volume |-> 100]] :
        h \in [1..5 -> {4001, 4002, 4003, 4005}]}

\* Two or three candles without volume, at two different closes.
QuietInputs ==
    {Candles(b) : b \in UNION {[1..n -> {[open |-> 9, high |-> 12, low |-> 8,
                                           close |-> 9, volume |-> 0],
                                          [open |-> 9, high |-> 12, low |-> 8,
                                           close |-> 11, volume |-> 0]}] : n \in 2..3}}

\* Seven and eight candles with peaks (or troughs) three bars apart.
TightInputs ==
    {LevelCandles(xs) : xs \in {<<1, 2, 5, 3, 4, 6, 2, 1>>, <<1, 2, 5, 3, 4, 6, 2>>,
                                 <<9, 8, 5, 7, 6, 4, 8, 9>>}}

\* A call of find_swings.
FindSwings ==
    /\ swings = Pending
    /\ swings' = find_swings(candles, fractal_in)
    /\ UNCHANGED <<candles, fractal_in, snapshot, loop_vars, pos_vars, imp_vars, spot_vars,
                   build_vars, call_vars>>

\* A call of compute_spot_snapshot.
ComputeSnapshot ==
    /\ snapshot = Pending
    /\ \E t \in {<<"5m", "scalp">>, <<"1d", "swing">>} :
          snapshot' = compute_spot_snapshot(candles, t[1], t[2], fractal_in)
    /\ UNCHANGED <<candles, fractal_in, swings, loop_vars, pos_vars, imp_vars, spot_vars,
                   build_vars, call_vars>>

(***************************************************************************)
(* run_spot_indicators_loop (bot/loops.py) and its tables.                 *)
(***************************************************************************)
tf_cycle == <<<<"5m", "scalp">>, <<"15m", "day">>, <<"1h", "day">>, <<"1d", "swing">>>>

MAX_SYMBOLS_PER_CYCLE == 3

\* The number of cycles whose timeframe is remembered.
MaxLog == 5

\* The last n elements of a sequence.
LastOf(s, n) == IF Len(s) <= n THEN s ELSE SubSeq(s, Len(s) - n + 1, Len(s))

\* str.strip() on the strings the model uses.
Strip(s) == IF s = " " THEN "" ELSE s

\* Contents of the symbol column of table spot, as the select returns them
\* (not null, not '', ordered).
SpotTables == {<<>>, <<"SPY">>, <<"QQQ", "SPY">>, <<" ", "QQQ", "SPY", "qqq">>}
FewSpotTables == {<<>>, <<"QQQ", "SPY">>}

\* A table with more rows than a cycle takes.
LongTable == <<"QQQ", "SPY", "SPYG", "TSLA">>

\* The loop over the selected rows: upper-cased, stripped, without blanks
\* and repetitions.
RECURSIVE UniqueSymbols(_, _)
UniqueSymbols(data, syms) ==
    IF data = <<>> THEN syms
    ELSE LET sym == Strip(Upper(Head(data)))
         IN  UniqueSymbols(Tail(data),
                 IF sym # "" /\ sym \notin Range(syms) THEN Append(syms, sym) ELSE syms)

\* Variant: the select without its limit.
fetch_spot_symbols_unlimited(table, max_symbols, select_ok) ==
    IF ~select_ok THEN <<>> ELSE UniqueSymbols(table, <<>>)

\* fetch_spot_symbols_for_indicators: [] when the select raises.
fetch_spot_symbols_for_indicators(table, max_symbols, select_ok) ==
    IF ~select_ok THEN <<>>
    ELSE UniqueSymbols(SubSeq(table, 1, IF Len(table) < max_symbols
                                        THEN Len(table) ELSE max_symbols), <<>>)

\* upsert_spot_tf_row: the row written for a symbol and a snapshot, on the
\* conflict key (symbol, timeframe, use_case).  last_updated is None and
\* dropped.
SpotTfRow(symbol, snap) ==
    [symbol |-> symbol, timeframe |-> snap.timeframe, use_case |-> snap.use_case,
     structure_state |-> snap.structure_state, swings |-> snap.swings,
     fvgs |-> snap.fvgs, liquidity |-> snap.liquidity,
     volume_profile |-> snap.volume_profile, trend |-> snap.trend,
     extras |-> snap.extras]

upsert_spot_tf_row(tbl, symbol, snap) ==
    LET row == SpotTfRow(symbol, snap)
        key == <<row.symbol, row.timeframe, row.use_case>>
    IN  [k \in DOMAIN tbl \cup {key} |-> IF k = key THEN row ELSE tbl[k]]

\* What `await market_data.fetch_candles(...)` may do, as the handlers of
\* the loop tell the cases apart: return candles, raise HTTPStatusError
\* with status 429 or another status, raise something else.  market_data.fetch_candles takes no `lookback` keyword, so with it
\* the call of the loop raises TypeError ("error"); the other outcomes are
\* those of a fetcher that takes the call, as yahoo_candles.fetch_yahoo_candles.
CandleOutcomes == {"candles", "http_429", "http_error", "error"}

\* The status code of an HTTPStatusError outcome.
StatusOf(o) == IF o = "http_429" THEN 429 ELSE 500

\* Variants: no status leaves the loop over the symbols; every status does.
BreaksCycleNever(status) == FALSE
BreaksCycleOnAnyStatus(status) == TRUE

\* except httpx.HTTPStatusError: break on 429, otherwise log and go on.
BreaksCycle(status) == status = 429

\* Candle lists the vendor has for a symbol: none, too few or enough for SPY
\* and TSLA, too few for the others.
VendorCandles(symbol) ==
    IF symbol \in {"SPY", "TSLA"} THEN {<<>>, Series("peak", 29), Series("peak", 30)}
    ELSE {Series("rising", 20)}

\* Control after the symbol at sym_idx was handled: `site` is where an
\* exception other than HTTPStatusError was raised ("" if none), stop says
\* that the loop over the symbols was left with break.  The locals of the
\* cycle are dropped when it ends.
AfterSymbol(site, stop, log) ==
    LET last == sym_idx = Len(symbols)
        done(how) ==
            /\ \E e \in Durations : EndIterationWith("spot", how, e, NoInfo, log)
            /\ symbols' = <<>>
            /\ sym_idx' = 1
    IN  IF site # "" /\ Handler("spot", site) = "none" THEN
            /\ EscapeWith("spot", log)
            /\ UNCHANGED <<symbols, sym_idx>>
        ELSE IF site # "" /\ Handler("spot", site) = "loop" THEN done("error")
        ELSE IF stop THEN done("break")
        ELSE IF last THEN done("ok")
        ELSE /\ GotoWith("spot", "fetch", log)
             /\ sym_idx' = sym_idx + 1
             /\ UNCHANGED symbols

\* Variant: after a cycle that was left early the loop takes the same
\* timeframe again.
SpotBeginRetrying(tables) ==
    /\ pc["spot"] = "sleep"
    /\ LET again == last_end.loop = "spot" /\ last_end.how \in {"break", "error"}
           at == IF again THEN (tf_index + Len(tf_cycle) - 1) % Len(tf_cycle) ELSE tf_index
       IN  /\ tf' = tf_cycle[at + 1]
           /\ tf_index' = (at + 1) % Len(tf_cycle)
           /\ tf_log' = LastOf(Append(tf_log, tf_cycle[at + 1][1]), MaxLog)
    /\ sym_idx' = 1
    /\ \E table \in tables, select_ok \in BOOLEAN, client_ok \in BOOLEAN :
         LET syms == fetch_spot_symbols_for_indicators(table, MAX_SYMBOLS_PER_CYCLE, select_ok)
         IN  IF syms = <<>> THEN
                 /\ symbols' = <<>>
                 /\ \E e \in Durations : EndIteration("spot", "ok", e, NoInfo)
             ELSE IF ~client_ok THEN
                 /\ symbols' = <<>>
                 /\ \E e \in Durations : Throw("spot", "AsyncClient", e, NoInfo)
             ELSE
                 /\ symbols' = syms
                 /\ Goto("spot", "fetch")
    /\ UNCHANGED <<spot_tf, pos_vars, imp_vars, ind_vars, build_vars, call_vars>>

\* The loop wakes up: next timeframe, symbols to work on; with none, or when
\* opening the HTTP client raises, the iteration ends.
SpotBegin(tables) ==
    /\ pc["spot"] = "sleep"
    /\ tf' = tf_cycle[tf_index + 1]
    /\ tf_index' = (tf_index + 1) % Len(tf_cycle)
    /\ tf_log' = LastOf(Append(tf_log, tf_cycle[tf_index + 1][1]), MaxLog)
    /\ sym_idx' = 1
    /\ \E table \in tables, select_ok \in BOOLEAN, client_ok \in BOOLEAN :
         LET syms == fetch_spot_symbols_for_indicators(table, MAX_SYMBOLS_PER_CYCLE, select_ok)
         IN  IF syms = <<>> THEN
                 /\ symbols' = <<>>
                 /\ \E e \in Durations : EndIteration("spot", "ok", e, NoInfo)
             ELSE IF ~client_ok THEN
                 /\ symbols' = <<>>
                 /\ \E e \in Durations : Throw("spot", "AsyncClient", e, NoInfo)
             ELSE
                 /\ symbols' = syms
                 /\ Goto("spot", "fetch")
    /\ UNCHANGED <<spot_tf, pos_vars, imp_vars, ind_vars, build_vars, call_vars>>

\* fetch_candles for the symbol at sym_idx is over: from there to the next
\* fetch_candles, or to the end of the iteration.
SpotCandles(outcomes) ==
    /\ pc["spot"] = "fetch"
    /\ LET symbol == symbols[sym_idx]
           log(what) == [loop |-> "spot", id |-> symbol, result |-> what,
                         left |-> Len(symbols) - sym_idx]
       IN  \E o \in outcomes :
             CASE o = "candles" ->
                    \E cs \in VendorCandles(symbol), upsert_ok \in BOOLEAN :
                       LET snap == compute_spot_snapshot(cs, tf[1], tf[2], 2)
                       IN  IF Len(cs) < 30 THEN
                               /\ UNCHANGED spot_tf
                               /\ AfterSymbol("", FALSE, log("few_candles"))
                           ELSE IF HasRaised(snap) THEN
                               /\ UNCHANGED spot_tf
                               /\ AfterSymbol("compute_spot_snapshot", FALSE, log("error"))
                           ELSE IF upsert_ok THEN
                               /\ spot_tf' = upsert_spot_tf_row(spot_tf, symbol, snap)
                               /\ AfterSymbol("", FALSE, log("upserted"))
                           ELSE
                               /\ UNCHANGED spot_tf
                               /\ AfterSymbol("upsert_spot_tf_row", FALSE, log("upsert_error"))
               [] o \in {"http_429", "http_error"} ->
                    /\ UNCHANGED spot_tf
                    /\ AfterSymbol("", BreaksCycle(StatusOf(o)), log(o))
               [] o = "error" ->
                    /\ UNCHANGED spot_tf
                    /\ AfterSymbol("fetch_candles", FALSE, log(o))
    /\ UNCHANGED <<tf_index, tf, tf_log, pos_vars, imp_vars, ind_vars, build_vars, call_vars>>

(***************************************************************************)
(* Initial states and specifications.                                      *)
(***************************************************************************)
InitLoops ==
    /\ main = "running"
    /\ pc = [l \in Loops |-> "sleep"]
    /\ last_end = NoEnd
    /\ step = NoStep

InitPositions ==
    /\ positions = [id \in {OtherRow.id} |-> OtherRow]
    /\ raw_positions = <<>>
    /\ acct_idx = 1
    /\ active = {}

InitImport ==
    /\ new_trades = {}
    /\ active_trades = {}
    /\ rows = <<>>
    /\ row_idx = 1
    /\ uuid_next = 0

InitSpot ==
    /\ tf_index = 0
    /\ tf = <<"", "">>
    /\ tf_log = <<>>
    /\ symbols = <<>>
    /\ sym_idx = 1
    /\ spot_tf = <<>>

InitIndicators ==
    /\ candles = <<>>
    /\ fractal_in = 2
    /\ swings = Pending
    /\ snapshot = Pending

InitBuild ==
    /\ trade_in = NoTrade
    /\ trade_out = Pending
    /\ levels_out = Pending

InitCalls ==
    /\ call_in = NoCall
    /\ call_out = Pending

Init ==
    /\ InitLoops /\ InitPositions /\ InitImport /\ InitSpot /\ InitIndicators
    /\ InitBuild /\ InitCalls

NextPositions ==
    \/ PositionsBegin
    \/ PositionsFetchFails
    \/ PositionsFetched(PositionFeeds)
    \/ PositionsQuotesFail
    \/ PositionsWrite(Markets)
    \/ QuotesBegin
    \/ QuotesSelectFails
    \/ QuotesFetchFails
    \/ QuotesWrite(Markets)

SpecPositions == Init /\ [][NextPositions]_vars

InitAnalysis ==
    /\ InitLoops /\ InitPositions /\ InitImport /\ InitSpot /\ InitBuild /\ InitCalls
    /\ candles \in ShortInputs \cup LongInputs \cup StructureInputs \cup CrossedInputs
                    \cup SweepInputs \cup QuietInputs \cup TightInputs
    /\ fractal_in \in 1..MaxFractal
    /\ swings = Pending
    /\ snapshot = Pending

NextAnalysis ==
    \/ FindSwings
    \/ ComputeSnapshot

SpecAnalysis == InitAnalysis /\ [][NextAnalysis]_vars

\* The row builder and its level computation, applied to a request.
InitTrades ==
    /\ InitLoops /\ InitPositions /\ InitImport /\ InitSpot /\ InitIndicators /\ InitCalls
    /\ trade_in \in TradeInputs \cup ShapeInputs
    /\ trade_out = Pending
    /\ levels_out = Pending

NextBuild ==
    \/ BuildRow
    \/ ComputeLevels

SpecBuild == InitTrades /\ [][NextBuild]_vars

\* Single calls of the functions the loops are made of.
Calls ==
    {[fn |-> "enrich", account_id |-> "A1", p |-> p] : p \in RawInputs}
    \cup {[fn |-> "fetch_quotes", symbols |-> l, market |-> m, fail_at |-> f] :
              l \in QuoteLists, m \in {<<>>, OpenMarket, FullMarket}, f \in 0..3}

InitSingleCall ==
    /\ InitLoops /\ InitPositions /\ InitImport /\ InitSpot /\ InitIndicators /\ InitBuild
    /\ call_in \in Calls
    /\ call_out = Pending

NextCalls ==
    \/ EnrichPosition
    \/ FetchQuotes

SpecCalls == InitSingleCall /\ [][NextCalls]_vars

NextSpot ==
    \/ SpotBegin(SpotTables)
    \/ SpotCandles(CandleOutcomes)

SpecSpot == Init /\ [][NextSpot]_vars

\* The spot loop over a table whose content stays as it is.
NextSpotTable ==
    \/ SpotBegin({LongTable})
    \/ SpotCandles(CandleOutcomes)

SpecSpotTable == Init /\ [][NextSpotTable]_vars

NextImport ==
    \/ SubmitTrade(Requests)
    \/ ImportBegin
    \/ ImportRow(TradeDefaults)

SpecImport == Init /\ [][NextImport]_vars

\* The four loops main() gathers, running together.  The environment is a
\* small one: one account with at most one position, an open market, one
\* trade request with defaults that set no levels, two spot symbols whose
\* candle fetch fails.
FewRequests == {BareRequest("r1", "spy", "equity")}

\* trade_defaults without percentages: stop and target stay unset.
FewDefaults == {[d EXCEPT !.sl_pct = None, !.tp_pct = None] : d \in TradeDefaults}

FewOutcomes == {"http_429", "http_error", "error"}

NextBot ==
    \/ PositionsBegin
    \/ PositionsFetchFails
    \/ PositionsFetched(FewFeeds)
    \/ PositionsQuotesFail
    \/ PositionsWrite({OpenMarket})
    \/ QuotesBegin
    \/ QuotesSelectFails
    \/ QuotesFetchFails
    \/ QuotesWrite({OpenMarket})
    \/ SubmitTrade(FewRequests)
    \/ ImportBegin
    \/ ImportRow(FewDefaults)
    \/ SpotBegin(FewSpotTables)
    \/ SpotCandles(FewOutcomes)

SpecBot == Init /\ [][NextBot]_vars

(***************************************************************************)
(* Claims about the positions loop.                                        *)
(***************************************************************************)
\* C3: after a positions-loop iteration that completes without an error,
\* the only rows with a 'tradier:' id are those of the positions the
\* iteration's fetch returned.
C3_OnlyFetchedRowsRemain ==
    (last_end.loop = "positions" /\ last_end.how \in {"ok", "idle"})
        => TradierIds(positions) \subseteq last_end.ids

\* The same for the iterations that reach the reconciliation (step 5).
C3_ReconciledIterations ==
    (last_end.loop = "positions" /\ last_end.how = "ok")
        => TradierIds(positions) = last_end.ids

\* C4: no step of the program removes or changes a row whose id does not
\* start with 'tradier:'.
C4_OtherBrokersUntouched ==
    [][\A id \in DOMAIN positions :
          ~LikeTradier(id) => (id \in DOMAIN positions' /\ positions'[id] = positions[id])]_vars

\* C4 witness: a reconciliation has deleted stale rows and the other
\* broker's row is still there.
C4_Witness ==
    /\ last_end.loop = "positions"
    /\ last_end.deleted # {}
    /\ OtherRow.id \in DOMAIN positions

(***************************************************************************)
(* Claims about the trade-import loop.                                     *)
(***************************************************************************)
\* C1: (a) a new_trades row disappears only in the step that inserted its
\* active_trades row; (b) when the defaults or the spot are missing, the
\* row cannot be built or the insert raises, both tables are left as they
\* were and the loop goes on to the next row of the cycle, ending the cycle
\* normally after the last one; (c) every cycle that reads new_trades takes
\* up all its rows, so a row left behind is attempted again.
C1_DeleteOnlyAfterInsert ==
    [][/\ \A r \in new_trades \ new_trades' :
             \E a \in active_trades' \ active_trades : a.req = r.id
       /\ (pc["import"] = "rows" /\ step'.loop = "import" /\ step'.result \in Skipped) =>
             /\ rows[row_idx] \in new_trades => rows[row_idx] \in new_trades'
             /\ new_trades' = new_trades
             /\ active_trades' = active_trades
             /\ IF row_idx < Len(rows)
                THEN pc'["import"] = "rows" /\ row_idx' = row_idx + 1 /\ rows' = rows
                ELSE pc'["import"] = "sleep" /\ last_end'.how = "ok"
       /\ (pc["import"] = "sleep" /\ pc'["import"] = "rows") =>
             (Range(rows') = new_trades /\ row_idx' = 1)
      ]_vars

\* C1 witness: a row was skipped because its insert raised, it is still in
\* new_trades, and a later row of the same cycle is up next.
C1_Witness ==
    /\ step.loop = "import"
    /\ step.result = "insert_error"
    /\ \E r \in new_trades : r.id = step.id
    /\ pc["import"] = "rows"
    /\ row_idx > 1

\* C2: the store never holds more than one active_trades row for a request.
C2_AtMostOneActiveRow ==
    \A a, b \in active_trades : a.req = b.req => a = b

(***************************************************************************)
(* Claims about the indicator engine.                                      *)
(***************************************************************************)
\* C9: compute_spot_snapshot does not raise, whatever the number of candles;
\* its result has exactly the nine snapshot keys and empty extras; with too
\* few candles for a part, that part is neutral: structure_state "unknown"
\* and no swing point below 2 * fractal + 1 candles, no gap and no liquidity
\* level below 3 candles, volume_profile {} without candles, trend {} below
\* 20 candles.
C9_SnapshotWellFormed ==
    snapshot # Pending =>
        /\ ~HasRaised(snapshot)
        /\ DOMAIN snapshot = SnapshotKeys
        /\ snapshot.extras = EmptyDict
        /\ DOMAIN snapshot.swings = {"last_high", "prev_high", "last_low", "prev_low"}
        /\ Len(candles) < 2 * fractal_in + 1 =>
              /\ snapshot.structure_state = "unknown"
              /\ \A k \in DOMAIN snapshot.swings : snapshot.swings[k] = NoPoint
        /\ Len(candles) < 3 =>
              /\ snapshot.fvgs = <<>>
              /\ snapshot.liquidity =
                    [equal_highs |-> <<>>, equal_lows |-> <<>>, sweeps |-> <<>>]
        /\ Len(candles) = 0 => snapshot.volume_profile = EmptyDict
        /\ Len(candles) < 20 => snapshot.trend = EmptyDict

\* C9 witness: a snapshot was computed from two candles, all parts neutral
\* except the volume profile.
C9_Witness ==
    /\ snapshot # Pending
    /\ Len(candles) = 2
    /\ ~HasRaised(snapshot)
    /\ snapshot.structure_state = "unknown"
    /\ snapshot.trend = EmptyDict
    /\ snapshot.volume_profile # EmptyDict

\* C10: the swing highs find_swings returns are, in increasing order of
\* index, exactly the bars i with fractal <= i < n - fractal whose high is
\* strictly above the highs of the bars i-k and i+k for k in 1..fractal,
\* each with its high as price; likewise the swing lows with strictly lower
\* lows; with n < 2 * fractal + 1 both lists are empty; nothing is raised.
\* For the highs 10, 12, 15, 12, 10 and fractal 2 the only swing high is
\* bar 2 at 15.
C10_SwingsCharacterised ==
    swings # Pending =>
        LET n == Len(candles)
            interior == {i \in 0..(n - 1) : fractal_in <= i /\ i < n - fractal_in}
            is_high(i) == \A k \in 1..fractal_in :
                              /\ candles[i + 1].high > candles[i + 1 - k].high
                              /\ candles[i + 1].high > candles[i + 1 + k].high
            is_low(i) == \A k \in 1..fractal_in :
                              /\ candles[i + 1].low < candles[i + 1 - k].low
                              /\ candles[i + 1].low < candles[i + 1 + k].low
            ascending(ps) == \A j \in 1..(Len(ps) - 1) : ps[j].ts < ps[j + 1].ts
        IN  /\ ~HasRaised(swings)
            /\ DOMAIN swings = {"swing_highs", "swing_lows"}
            /\ ascending(swings.swing_highs)
            /\ ascending(swings.swing_lows)
            /\ {<<p.ts, p.price>> : p \in Range(swings.swing_highs)}
                  = {<<i, candles[i + 1].high>> : i \in {j \in interior : is_high(j)}}
            /\ {<<p.ts, p.price>> : p \in Range(swings.swing_lows)}
                  = {<<i, candles[i + 1].low>> : i \in {j \in interior : is_low(j)}}
            /\ n < 2 * fractal_in + 1 =>
                  swings = [swing_highs |-> <<>>, swing_lows |-> <<>>]
            /\ ([i \in 1..n |-> candles[i].high] = <<10, 12, 15, 12, 10>> /\ fractal_in = 2) =>
                  swings.swing_highs = <<[price |-> 15, ts |-> 2]>>

\* C10 witness: the five bars with highs 10, 12, 15, 12, 10 were searched
\* with fractal 2 and bar 2 came out as the only swing high.
C10_Witness ==
    /\ swings # Pending
    /\ ~HasRaised(swings)
    /\ fractal_in = 2
    /\ [i \in 1..Len(candles) |-> candles[i].high] = <<10, 12, 15, 12, 10>>
    /\ swings.swing_highs = <<[price |-> 15, ts |-> 2]>>

\* A step in which a call to the broker or to the candle vendor failed with
\* an HTTP error.
HttpFailure(s) ==
    \/ /\ s.loop \in {"positions", "quotes"}
       /\ s.result = "raised"
       /\ s.id \in {"fetch_positions", "fetch_quotes"}
    \/ /\ s.loop = "spot"
       /\ s.result \in {"http_429", "http_error"}

\* C5: an exception raised inside an iteration of a loop is caught: the step
\* in which it is raised leaves the loop alive (asleep until its next
\* iteration, or at the next symbol or row), leaves the position of every
\* other loop as it was, and main keeps running; no loop is ever terminated or
\* cancelled.
C5_ErrorsCaught ==
    /\ [](main = "running" /\ \A l \in Loops : pc[l] \notin {"terminated", "cancelled"})
    /\ [][ step'.result \in {"raised", "error", "upsert_error", "insert_error",
                             "delete_error", "http_error", "http_429"}
           => /\ pc'[step'.loop] \in {"sleep", "fetch", "rows"}
              /\ (step'.result = "raised" =>
                    /\ pc'[step'.loop] = "sleep"
                    /\ last_end'.loop = step'.loop
                    /\ last_end'.how = "error")
              /\ \A m \in Loops \ {step'.loop} : pc'[m] = pc[m] ]_vars

\* C5 witness: fetch_quotes has just raised in the positions loop, which now
\* sleeps, while the spot loop and the import loop are inside an iteration.
C5_Witness ==
    /\ step.loop = "positions"
    /\ step.result = "raised"
    /\ step.id = "fetch_quotes"
    /\ pc["positions"] = "sleep"
    /\ pc["spot"] = "fetch"
    /\ pc["import"] = "rows"
    /\ main = "running"

\* C6: when fetch_candles fails with HTTP 429 for a symbol, the cycle ends in
\* that step: nothing is upserted, the symbols after it are dropped, the loop
\* sleeps the remainder of its interval; a symbol is only ever handled by a
\* loop that is inside a cycle, so the next fetch comes after the next wake-up.
C6_RateLimitEndsCycle ==
    [][ /\ (step'.loop = "spot" /\ step'.result = "http_429"
              => /\ pc'["spot"] = "sleep"
                 /\ spot_tf' = spot_tf
                 /\ symbols' = <<>>
                 /\ last_end'.loop = "spot"
                 /\ last_end'.how = "break"
                 /\ last_end'.arg = Max(0, Max(300, poll_spot_tf_sec) - last_end'.elapsed))
        /\ (step'.loop = "spot" /\ step'.result # "raised" => pc["spot"] = "fetch")
        /\ (spot_tf' # spot_tf => pc["spot"] = "fetch")
        /\ (pc["spot"] = "sleep" /\ pc'["spot"] = "fetch" => sym_idx' = 1) ]_vars

\* C6 witness: the first of two symbols got HTTP 429; the loop sleeps and
\* the second symbol was not handled.
C6_Witness ==
    /\ step.loop = "spot"
    /\ step.result = "http_429"
    /\ step.left > 0
    /\ pc["spot"] = "sleep"
    /\ symbols = <<>>

C8_EverySleepIsRemainder ==
    last_end.loop # "none" =>
        last_end.arg = Max(0, Interval(last_end.loop) - last_end.elapsed)

\* C8: an iteration that ends sleeps before the next one starts; the sleep
\* is never negative and never longer than the interval; it is
\* max(0, interval - duration), except that an iteration of the positions,
\* quotes or import loop that finds nothing to do sleeps the whole interval.
C8_SelfPaced ==
    last_end.loop # "none" =>
        /\ pc[last_end.loop] = "sleep"
        /\ last_end.arg >= 0
        /\ last_end.arg <= Interval(last_end.loop)
        /\ IF last_end.how = "idle"
           THEN /\ last_end.loop \in {"positions", "quotes", "import"}
                /\ last_end.arg = Interval(last_end.loop)
           ELSE last_end.arg = Max(0, Interval(last_end.loop) - last_end.elapsed)

\* C8 witness: an iteration took longer than the interval and sleeps 0.
C8_Witness ==
    /\ last_end.loop = "positions"
    /\ last_end.how = "ok"
    /\ last_end.elapsed > Interval("positions")
    /\ last_end.arg = 0
    /\ pc["positions"] = "sleep"

\* The bars (1-based) that are swing highs (up = TRUE) or swing lows of the
\* candle list under the strict fractal condition.
SwingBars(cs, fractal, up) ==
    {i \in (fractal + 1)..(Len(cs) - fractal) :
        \A k \in 1..fractal :
            IF up THEN cs[i].high > cs[i - k].high /\ cs[i].high > cs[i + k].high
                  ELSE cs[i].low < cs[i - k].low /\ cs[i].low < cs[i + k].low}

\* The last bar of a non-empty set of bars.
LastBar(S) == CHOOSE i \in S : \A j \in S : j <= i

\* C11: the structure state of a snapshot is "unknown" when the candles have
\* fewer than two swing highs or fewer than two swing lows; otherwise, with
\* lh/ph the last/previous swing high and ll/pl the last/previous swing low,
\* it is the first that applies of HH (lh > ph and ll > pl), HL (lh <= ph
\* and ll > pl), LH (lh < ph and ll >= pl), LL (lh < ph and ll < pl), and
\* "range" in the remaining cases, which are those with lh >= ph and
\* ll <= pl; it is never "unknown" then.
C11_StructureClassified ==
    snapshot # Pending =>
        LET hs == SwingBars(candles, fractal_in, TRUE)
            ls == SwingBars(candles, fractal_in, FALSE)
            lh == candles[LastBar(hs)].high
            ph == candles[LastBar(hs \ {LastBar(hs)})].high
            ll == candles[LastBar(ls)].low
            pl == candles[LastBar(ls \ {LastBar(ls)})].low
            state == snapshot.structure_state
        IN  IF Cardinality(hs) < 2 \/ Cardinality(ls) < 2
            THEN state = "unknown"
            ELSE /\ state \in {"HH", "HL", "LH", "LL", "range"}
                 /\ state = (IF lh > ph /\ ll > pl THEN "HH"
                             ELSE IF lh <= ph /\ ll > pl THEN "HL"
                             ELSE IF lh < ph /\ ll >= pl THEN "LH"
                             ELSE IF lh < ph /\ ll < pl THEN "LL"
                             ELSE "range")
                 /\ state = "range" <=> (lh >= ph /\ ll <= pl)

\* C11 witness: a snapshot of candles whose last two swing highs are equal
\* and whose last swing low is above the previous one: "HL".
C11_Witness ==
    /\ snapshot # Pending
    /\ snapshot.structure_state = "HL"
    /\ snapshot.swings.last_high.price = snapshot.swings.prev_high.price
    /\ snapshot.swings.last_low.price > snapshot.swings.prev_low.price

\* The gaps of a candle list as the gap detector is described: for every
\* interior bar (1-based i + 1, between cs[i] and cs[i + 2]) a bull gap iff
\* the previous high is below the next low, a bear gap iff the previous low
\* is above the next high, with age n - i and quality 1, in order of i.
GapsCharacterised(cs, gaps) ==
    LET n == Len(cs)
        interior == 1..(n - 2)
        bull(i) == [type |-> "bull", top |-> cs[i + 2].low, bottom |-> cs[i].high,
                    age |-> n - i, quality |-> 1]
        bear(i) == [type |-> "bear", top |-> cs[i].low, bottom |-> cs[i + 2].high,
                    age |-> n - i, quality |-> 1]
        expected == {bull(i) : i \in {j \in interior : cs[j].high < cs[j + 2].low}}
                    \cup {bear(i) : i \in {j \in interior : cs[j].low > cs[j + 2].high}}
    IN  /\ Range(gaps) = expected
        /\ Len(gaps) = Cardinality(expected)
        /\ \A j \in 1..(Len(gaps) - 1) : gaps[j].age >= gaps[j + 1].age

\* Every bar's low exceeds the previous bar's high.
Stairs(cs) == \A i \in 2..Len(cs) : cs[i].low > cs[i - 1].high

\* No bar's low is above its high.
WellFormed(cs) == \A i \in 1..Len(cs) : cs[i].low <= cs[i].high

\* Exactly n - 2 gaps, all bull.
BullGapsThroughout(cs, gaps) ==
    /\ Len(gaps) = Max(0, Len(cs) - 2)
    /\ \A j \in 1..Len(gaps) : gaps[j].type = "bull"

\* C12 as stated: the gaps are as characterised, and every candle list in
\* which each bar's low exceeds the previous bar's high has a bull gap at
\* every interior index and no bear gap.
C12_GapsAndStairs ==
    snapshot # Pending =>
        /\ GapsCharacterised(candles, snapshot.fvgs)
        /\ Stairs(candles) => BullGapsThroughout(candles, snapshot.fvgs)

\* C12: the gaps are as characterised, and every list of candles with
\* low <= high in which each bar's low exceeds the previous bar's high has a
\* bull gap at every interior index and no bear gap.
C12_GapsAndWellFormedStairs ==
    snapshot # Pending =>
        /\ GapsCharacterised(candles, snapshot.fvgs)
        /\ (Stairs(candles) /\ WellFormed(candles)) =>
              BullGapsThroughout(candles, snapshot.fvgs)

\* C12 witness: eight rising, separated candles gave six bull gaps, the
\* oldest with age 7.
C12_Witness ==
    /\ snapshot # Pending
    /\ Len(candles) = 8
    /\ Stairs(candles) /\ WellFormed(candles)
    /\ Len(snapshot.fvgs) = 6
    /\ snapshot.fvgs[1] = [type |-> "bull", top |-> candles[3].low,
                           bottom |-> candles[1].high, age |-> 7, quality |-> 1]

\* C13: the bullish and the bearish test decide independently: at every
\* interior index the snapshot has one bull gap iff the bullish test holds
\* and one bear gap iff the bearish test holds, whatever the other test says.
C13_TestsIndependent ==
    snapshot # Pending =>
        LET n == Len(candles)
            gaps == snapshot.fvgs
            at(i, type) == {j \in 1..Len(gaps) : gaps[j].age = n - i /\ gaps[j].type = type}
        IN  \A i \in 1..(n - 2) :
              /\ Cardinality(at(i, "bull")) =
                    (IF candles[i].high < candles[i + 2].low THEN 1 ELSE 0)
              /\ Cardinality(at(i, "bear")) =
                    (IF candles[i].low > candles[i + 2].high THEN 1 ELSE 0)

\* C13 witness: a snapshot with a bull gap and a bear gap of the same age.
C13_Witness ==
    /\ snapshot # Pending
    /\ \E j \in 1..(Len(snapshot.fvgs) - 1) :
          /\ snapshot.fvgs[j].type = "bull"
          /\ snapshot.fvgs[j + 1].type = "bear"
          /\ snapshot.fvgs[j].age = snapshot.fvgs[j + 1].age

\* Every value that two consecutive candles share as their high is among the
\* equal highs of the liquidity record, and likewise for the lows.
SharedLevelsListed(cs, liquidity) ==
    \A i \in 2..Len(cs) :
        /\ cs[i].high = cs[i - 1].high => Num(cs[i].high) \in Range(liquidity.equal_highs)
        /\ cs[i].low = cs[i - 1].low => Num(cs[i].low) \in Range(liquidity.equal_lows)

\* C14: for every candle list, a high shared by two consecutive candles is in
\* equal_highs and a low shared by two consecutive candles is in equal_lows.
C14_EqualLevelsListed ==
    snapshot # Pending => SharedLevelsListed(candles, snapshot.liquidity)

\* C14, from three candles on: shared consecutive highs and lows are listed.
C14_EqualLevelsListedFromThree ==
    (snapshot # Pending /\ Len(candles) >= 3) =>
        SharedLevelsListed(candles, snapshot.liquidity)

\* C15: the sweeps of the liquidity record are exactly: for every bar i >= 2
\* a high sweep iff high[i-2] is one of the equal-high levels and
\* high[i] > high[i-1] > high[i-2], and a low sweep iff low[i-2] is one of
\* the equal-low levels and low[i] < low[i-1] < low[i-2]; each carries the
\* high or low and the ts of bar i; they are in candle order, the high sweep
\* before the low sweep of the same bar, and none is left out or repeated.
C15_SweepsCharacterised ==
    snapshot # Pending =>
        LET cs == candles
            liq == snapshot.liquidity
            sw == liq.sweeps
            high_at(i) == /\ Num(cs[i - 2].high) \in Range(liq.equal_highs)
                          /\ cs[i].high > cs[i - 1].high
                          /\ cs[i - 1].high > cs[i - 2].high
            low_at(i) == /\ Num(cs[i - 2].low) \in Range(liq.equal_lows)
                         /\ cs[i].low < cs[i - 1].low
                         /\ cs[i - 1].low < cs[i - 2].low
            expected ==
                {[type |-> "high", price |-> cs[i].high, ts |-> cs[i].ts] :
                    i \in {j \in 3..Len(cs) : high_at(j)}}
                \cup {[type |-> "low", price |-> cs[i].low, ts |-> cs[i].ts] :
                    i \in {j \in 3..Len(cs) : low_at(j)}}
        IN  /\ Range(sw) = expected
            /\ Len(sw) = Cardinality(expected)
            /\ \A j \in 1..(Len(sw) - 1) :
                  \/ sw[j].ts < sw[j + 1].ts
                  \/ sw[j].ts = sw[j + 1].ts /\ sw[j].type = "high" /\ sw[j + 1].type = "low"

\* C15 witness: the highs 4001, 4003, 4002, 4003, 4005 give one sweep, at the
\* last bar: its start 4002 is the midpoint of the first two highs.
C15_Witness ==
    /\ snapshot # Pending
    /\ [i \in 1..Len(candles) |-> candles[i].high] = <<4001, 4003, 4002, 4003, 4005>>
    /\ snapshot.liquidity.sweeps =
          <<[type |-> "high", price |-> 4005, ts |-> 4]>>

\* The volume of the candles whose close lies in bin b of the 20 equal bins
\* between lo and hi: lo + b * w <= close < lo + (b + 1) * w with
\* w = (hi - lo) / 20, the last bin taking close = hi as well.
RECURSIVE VolumeInBin(_, _, _, _)
VolumeInBin(cs, lo, hi, b) ==
    IF cs = <<>> THEN 0
    ELSE LET c == Head(cs).close
             inside == \/ /\ b * (hi - lo) <= (c - lo) * 20
                          /\ (c - lo) * 20 < (b + 1) * (hi - lo)
                       \/ b = 19 /\ c = hi
         IN  (IF inside THEN Head(cs).volume ELSE 0) + VolumeInBin(Tail(cs), lo, hi, b)

\* C16: a non-empty volume profile has its poc between the least and the
\* greatest close, at the centre of a bin whose accumulated volume is the
\* highest; the profile is empty without candles, with max(close) <=
\* min(close), and when no bin has volume.
C16_PocIsCentreOfTopBin ==
    snapshot # Pending =>
        LET cs == candles
            vp == snapshot.volume_profile
            closes == {cs[i].close : i \in 1..Len(cs)}
            lo == CHOOSE c \in closes : \A d \in closes : c <= d
            hi == CHOOSE c \in closes : \A d \in closes : c >= d
            centre(b) == Frac(40 * lo + (2 * b + 1) * (hi - lo), 40)
        IN  /\ vp # EmptyDict =>
                /\ ~FLess(vp.poc, Num(lo))
                /\ ~FLess(Num(hi), vp.poc)
                /\ \E b \in 0..19 :
                      /\ vp.poc = centre(b)
                      /\ VolumeInBin(cs, lo, hi, b) > 0
                      /\ \A o \in 0..19 : VolumeInBin(cs, lo, hi, o) <= VolumeInBin(cs, lo, hi, b)
            /\ cs = <<>> => vp = EmptyDict
            /\ (cs # <<>> /\ hi <= lo) => vp = EmptyDict
            /\ (\A i \in 1..Len(cs) : cs[i].volume = 0) => vp = EmptyDict

\* C16 witness: closes 9 (volume 100) and 11 (volume 200): the poc is the
\* centre 10.95 of the last bin, which holds the candle at max(close).
C16_Witness ==
    /\ snapshot # Pending
    /\ [i \in 1..Len(candles) |-> <<candles[i].close, candles[i].volume>>]
          = <<<<9, 100>>, <<11, 200>>>>
    /\ snapshot.volume_profile # EmptyDict
    /\ snapshot.volume_profile.poc = Frac(219, 20)

\* The closes of a candle list rise strictly from bar to bar.
ClosesRise(cs) == \A i \in 2..Len(cs) : cs[i].close > cs[i - 1].close

\* C17: compute_trend returns the empty dict for fewer than 20 candles; for
\* 20 or more candles whose closes rise from bar to bar the slope is 'up'.
C17_RisingClosesSlopeUp ==
    snapshot # Pending =>
        /\ Len(candles) < 20 => snapshot.trend = EmptyDict
        /\ (Len(candles) >= 20 /\ ClosesRise(candles)) =>
              /\ ~HasRaised(snapshot.trend)
              /\ snapshot.trend # EmptyDict
              /\ snapshot.trend.slope = "up"

\* C17 witness: exactly 20 candles with rising closes 10, 11, ..., 29 and
\* the slope 'up'.
C17_Witness ==
    /\ snapshot # Pending
    /\ Len(candles) = 20
    /\ \A i \in 1..20 : candles[i].close = 9 + i
    /\ snapshot.trend # EmptyDict
    /\ snapshot.trend.slope = "up"

\* C18 as stated: the slope is 'up' if the latest fast EMA is strictly above
\* the fast EMA of the candle 6 positions before the last one, 'down' if
\* strictly below, 'flat' otherwise.
C18_SlopeAgainstSixBarsEarlier ==
    (snapshot # Pending /\ snapshot.trend # EmptyDict) =>
        snapshot.trend.slope = SlopeAgainst(candles, 6)

\* C18: the slope is 'up' if the latest fast EMA is strictly above the fast
\* EMA of the candle 5 positions before the last one (ema_fast[-6]), 'down'
\* if strictly below, 'flat' otherwise.
C18_SlopeAgainstFiveBarsEarlier ==
    (snapshot # Pending /\ snapshot.trend # EmptyDict) =>
        snapshot.trend.slope = SlopeAgainst(candles, 5)

\* C18 witness: 20 candles in a zigzag whose latest fast EMA is below the
\* one 5 bars earlier and above the one 6 bars earlier: the slope is 'down'.
C18_Witness ==
    /\ snapshot # Pending
    /\ Len(candles) = 20
    /\ snapshot.trend # EmptyDict
    /\ snapshot.trend.slope = "down"
    /\ SlopeAgainst(candles, 5) = "down"
    /\ SlopeAgainst(candles, 6) = "up"

(***************************************************************************)
(* Claims about the row builder of the importer.                           *)
(***************************************************************************)
\* The levels `out` follow the rule of C19 for the request, defaults and
\* spot of trade_in: a level of the request is kept; a missing one is spot
\* * (1 - sl_pct) resp. spot * (1 + tp_pct) for an equity or an option
\* call, spot * (1 + sl_pct) resp. spot * (1 - tp_pct) for an option put,
\* when the percentage is positive; it stays unset otherwise.
LevelRule(out) ==
    LET row == trade_in.row
        sp == trade_in.spot
        sl_pct == trade_in.defaults.sl_pct
        tp_pct == trade_in.defaults.tp_pct
        positive(x) == x[1] = "num" /\ x[2] > 0
        option == Lower(row.asset_type) = "option"
        call == (option /\ row.cp = "call") \/ ~option
        put == option /\ row.cp = "put"
    IN  /\ ~IsNone(row.sl_level) => out.sl_level = row.sl_level
        /\ ~IsNone(row.tp_level) => out.tp_level = row.tp_level
        /\ (IsNone(row.sl_level) /\ ~positive(sl_pct)) => IsNone(out.sl_level)
        /\ (IsNone(row.tp_level) /\ ~positive(tp_pct)) => IsNone(out.tp_level)
        /\ (IsNone(row.sl_level) /\ positive(sl_pct) /\ call) =>
              out.sl_level = DMul(sp, DSub(Num(1), sl_pct))
        /\ (IsNone(row.tp_level) /\ positive(tp_pct) /\ call) =>
              out.tp_level = DMul(sp, DAdd(Num(1), tp_pct))
        /\ (IsNone(row.sl_level) /\ positive(sl_pct) /\ put) =>
              out.sl_level = DMul(sp, DAdd(Num(1), sl_pct))
        /\ (IsNone(row.tp_level) /\ positive(tp_pct) /\ put) =>
              out.tp_level = DMul(sp, DSub(Num(1), tp_pct))

\* The example of C19: sl_pct 0.05, tp_pct 0.10, spot 100, call direction,
\* no level in the request.
LevelExample ==
    /\ trade_in # NoTrade
    /\ trade_in.defaults.sl_pct = Frac(5, 100)
    /\ trade_in.defaults.tp_pct = Frac(10, 100)
    /\ trade_in.spot = Num(100)
    /\ trade_in.row.asset_type = "option" /\ trade_in.row.cp = "call"
    /\ IsNone(trade_in.row.sl_level) /\ IsNone(trade_in.row.tp_level)

\* The double 7740561859543041 / 2^46 = 110.00000000000001..., one unit in
\* the last place above 110.
JustAbove110 == <<"dbl", <<3041, 5954, 5618, 7740>>, 46>>

\* The levels _compute_sl_tp_levels returned and those of the row built.
LevelsOut ==
    (IF levels_out # Pending THEN {levels_out} ELSE {})
        \cup (IF trade_out # Pending /\ trade_out.built
              THEN {[sl_level |-> trade_out.sl_level, tp_level |-> trade_out.tp_level]}
              ELSE {})

\* C19 as stated: stop and target levels follow the rule above, and with
\* sl_pct 0.05, tp_pct 0.10, spot 100 and call direction the result is
\* sl_level 95 and tp_level 110.
C19_LevelsAndExactExample ==
    \A out \in LevelsOut :
        /\ LevelRule(out)
        /\ LevelExample => (out.sl_level = Num(95) /\ out.tp_level = Num(110))

\* C19: stop and target levels follow the rule above, and with sl_pct 0.05,
\* tp_pct 0.10, spot 100 and call direction the result is sl_level 95 and
\* tp_level 110.00000000000001, the double that 100 * (1.0 + 0.10) yields.
C19_LevelsAndRoundedExample ==
    \A out \in LevelsOut :
        /\ LevelRule(out)
        /\ LevelExample => (out.sl_level = Num(95) /\ out.tp_level = JustAbove110)

\* C19 witness: the example was computed, by itself and in a built row.
C19_Witness ==
    /\ LevelExample
    /\ levels_out = [sl_level |-> Num(95), tp_level |-> JustAbove110]
    /\ trade_out # Pending /\ trade_out.built
    /\ trade_out.sl_level = Num(95)
    /\ trade_out.tp_level = JustAbove110

\* A row was built from a request that has no entry condition and no entry
\* level of its own.
BuiltWithoutEntry ==
    /\ trade_out # Pending
    /\ trade_out.built
    /\ ~Given(trade_in.row.entry_cond)
    /\ IsNone(trade_in.row.entry_level)

\* C20 as stated: a row built from a request without an entry condition
\* (and without an entry level of its own) has the spot price as its entry
\* level, whatever entry_tf the request carries.
C20_EntryLevelIsSpot ==
    BuiltWithoutEntry => trade_out.entry_level = trade_in.spot

\* C20: a row built from a request without an entry condition and without
\* an entry_tf (and without an entry level of its own) has the spot price
\* as its entry level.
C20_EntryLevelIsSpotWithoutTf ==
    (BuiltWithoutEntry /\ ~Given(trade_in.row.entry_tf)) =>
        trade_out.entry_level = trade_in.spot

\* C20 witness: an equity request with no entry field at all, built at spot
\* 250.37: the row enters 'now' at 250.37.
C20_Witness ==
    /\ BuiltWithoutEntry
    /\ trade_in.row.asset_type = "equity"
    /\ ~Given(trade_in.row.entry_tf)
    /\ trade_in.spot = Frac(25037, 100)
    /\ trade_out.entry_cond = "now"
    /\ trade_out.entry_level = Frac(25037, 100)

(***************************************************************************)
(* Claims about single steps of the loops.                                 *)
(***************************************************************************)
\* The record step 2 builds for a position that is an option or not, with
\* the stored quantity qty.
Classified(out, p, option, qty) ==
    /\ out.symbol = Upper(p.symbol)
    /\ out.asset_type = (IF option THEN "option" ELSE "equity")
    /\ out.contract_multiplier = (IF option THEN 100 ELSE 1)
    /\ out.occ = (IF option THEN out.symbol ELSE NULL)
    /\ out.avg_cost = (IF qty[2] # 0 THEN Frac(p.cost_basis * qty[3], qty[2]) ELSE None)

\* A call of step 2 has returned a record for the position.
Enriched1 == call_in.fn = "enrich" /\ call_out # Pending /\ ~call_out.skip

JsonSafe(v) == v[1] \in {"none", "num", "dbl"}

\* C22: every row in the store carries only JSON-safe numbers: the prices
\* of the positions rows (upsert and quote update) and the levels, strike
\* and expiry of the active_trades rows are None or finite, never NaN or
\* an infinity.
C22_WritesJsonSafe ==
    /\ \A id \in DOMAIN positions :
          /\ JsonSafe(positions[id].avg_cost)
          /\ JsonSafe(positions[id].mark)
          /\ JsonSafe(positions[id].prev_close)
          /\ JsonSafe(positions[id].underlier_spot)
    /\ \A a \in active_trades :
          /\ JsonSafe(a.entry_level)
          /\ JsonSafe(a.sl_level)
          /\ JsonSafe(a.tp_level)
          /\ JsonSafe(a.strike)
          /\ JsonSafe(a.expiry)

\* A call of fetch_quotes has ended.
QuotesFetched == call_in.fn = "fetch_quotes" /\ call_out # Pending

\* The number of places of the requests that carry symbol u.
TimesRequested(requests, u) ==
    Cardinality({<<i, j>> \in (1..Len(requests)) \X (1..QUOTE_BATCH) :
                    j <= Len(requests[i]) /\ requests[i][j] = u})

\* C23: fetch_quotes sends the distinct non-empty upper-cased symbols in
\* requests of at most 70, every one of them in exactly one request when
\* no request fails; its result maps the upper-cased symbols the vendor
\* knows to their quotes; for an empty list it sends nothing and returns an
\* empty mapping; when a request fails it raises and returns no mapping.
C23_QuotesInBatches ==
    QuotesFetched =>
        LET wanted   == {Upper(s) : s \in Range(call_in.symbols)} \ {""}
            requests == call_out.requests
            failed   == call_in.fail_at \in 1..Len(requests)
        IN  /\ \A i \in 1..Len(requests) :
                  /\ Len(requests[i]) \in 1..70
                  /\ Range(requests[i]) \subseteq wanted
            /\ \A u \in wanted : TimesRequested(requests, u) <= 1
            /\ ~failed => \A u \in wanted : TimesRequested(requests, u) = 1
            /\ ~failed =>
                  /\ DOMAIN call_out.result = wanted \cap DOMAIN call_in.market
                  /\ \A u \in DOMAIN call_out.result :
                        call_out.result[u] = call_in.market[u]
            /\ call_in.symbols = <<>> => requests = <<>> /\ DOMAIN call_out.result = {}
            /\ failed => call_out.result = Raised("HTTPStatusError")

\* C23 witness: 142 distinct symbols among the 145 given went out in three
\* requests of 70, 70 and 2, and the quote of each came back.
C23_Witness ==
    /\ QuotesFetched
    /\ Len(call_in.symbols) = MaxSymbols + 4
    /\ call_in.market = FullMarket
    /\ call_in.fail_at = 0
    /\ Len(call_out.requests) = 3
    /\ Len(call_out.requests[3]) = MaxSymbols + 1 - 2 * QUOTE_BATCH
    /\ Cardinality(DOMAIN call_out.result) = MaxSymbols + 1
    /\ "SPY" \in DOMAIN call_out.result

(***************************************************************************)
(* Claims about the two loops that share table positions.                  *)
(***************************************************************************)
\* The calls of a positions-loop iteration that come before its deletes.
BeforeDelete == {"fetch_positions", "fetch_quotes", "upsert_position_row"}

\* C24: (a) a step in which a position fetch, the quote fetch or an upsert
\* of the positions loop raises removes no positions row; (b) a step that
\* removes a positions row is a step of a positions-loop iteration whose
\* fetches succeeded and which has upserted the row of every position it
\* fetched.
C24_DeleteOnlyAfterAllSucceeded ==
    [][/\ (step'.loop = "positions" /\ step'.result = "raised" /\ step'.id \in BeforeDelete)
            => DOMAIN positions \subseteq DOMAIN positions'
       /\ ~(DOMAIN positions \subseteq DOMAIN positions')
            => /\ pc["positions"] = "fetch_quotes"
               /\ last_end'.loop = "positions"
               /\ step'.id \notin BeforeDelete
               /\ last_end'.ids = FetchedIds(raw_positions)
               /\ \A id \in last_end'.ids : id \in DOMAIN positions']_vars

\* C24 witness: an iteration ended by a raising upsert, and a 'tradier:'
\* row of a position that its fetch did not return is still in the table.
C24_Witness ==
    /\ step.loop = "positions"
    /\ step.result = "raised"
    /\ step.id = "upsert_position_row"
    /\ TradierIds(positions) \ last_end.ids # {}

\* C25: a step of the quotes loop leaves the set of position ids as it
\* is, whatever the positions loop did since the quotes loop read its rows,
\* and a step that changes the set of position ids is a step of the
\* positions loop.
C25_QuotesLoopCreatesNoRow ==
    [][/\ pc'["quotes"] # pc["quotes"] => DOMAIN positions' = DOMAIN positions
       /\ DOMAIN positions' # DOMAIN positions => pc'["positions"] # pc["positions"]]_vars

\* C25 witness: a quotes iteration has written the fields of a row that
\* was deleted while it awaited the quotes, and the row is not there.
C25_Witness ==
    /\ last_end.loop = "quotes"
    /\ last_end.how = "ok"
    /\ last_end.ids \ DOMAIN positions # {}

(***************************************************************************)
(* Claims about the rows the importer inserts.                             *)
(***************************************************************************)
\* What C26 says of an active_trades row r built from request q.
WellShaped(r, q) ==
    /\ r.status = "nt-waiting"
    /\ r.qty > 0
    /\ r.asset_type \in {"equity", "option"}
    /\ r.asset_type = "option" =>
          /\ r.cp \in {"call", "put"}
          /\ ~IsNone(r.strike) /\ ~IsNone(r.expiry) /\ r.occ # NoOcc
    /\ ~IsNone(r.sl_level) => r.sl_tf # NULL
    /\ (r.asset_type = "option" /\ ~IsNone(r.sl_level)) =>
          /\ r.sl_cond # NULL
          /\ q.sl_cond = NULL => r.sl_cond = (IF r.cp = "call" THEN "cb" ELSE "ca")
          /\ Given(q.sl_cond) => r.sl_cond = q.sl_cond

\* C26: every row the builder returns, and so every row in active_trades,
\* has status 'nt-waiting', a positive qty and asset type 'equity' or
\* 'option'; an option row has cp 'call' or 'put' and a strike, an expiry
\* and an occ; a row with a stop level has a stop timeframe; an option row
\* with a stop level has a stop condition, 'cb' for a call and 'ca' for a
\* put when the request has none, the request's own when it has one.
C26_InsertedRowsWellShaped ==
    /\ (trade_out # Pending /\ trade_out.built) => WellShaped(trade_out, trade_in.row)
    /\ \A a \in active_trades :
          \A q \in Requests : q.id = a.req => WellShaped(a, q)

\* C26 witness: a put without stop fields of its own was built with the
\* stop of the defaults, and got stop condition 'ca' and the timeframe of
\* the defaults.
C26_Witness ==
    /\ trade_out # Pending /\ trade_out.built
    /\ trade_in.row.id = "t2"
    /\ trade_out.asset_type = "option"
    /\ trade_out.cp = "put"
    /\ IsNone(trade_in.row.sl_level) /\ ~IsNone(trade_out.sl_level)
    /\ trade_in.row.sl_cond = NULL /\ trade_out.sl_cond = "ca"
    /\ ~Given(trade_in.row.sl_tf) /\ ~Given(trade_in.row.entry_tf)
    /\ trade_out.sl_tf = "15m"
    /\ trade_out.qty = 1

(***************************************************************************)
(* Claims about the cycles of the spot loop.                               *)
(***************************************************************************)
\* The order of the timeframes the specification names.
TimeframeOrder == <<"5m", "15m", "1h", "1d">>

\* The cycle that just ended was left early: by the break on status 429 or
\* by an exception that reached the handler around the iteration.
CycleAborted == last_end.loop = "spot" /\ last_end.how \in {"break", "error"}

\* C27: every cycle of the spot loop starts by taking the timeframe at the
\* pointer and moving the pointer one position on (mod 4), also after a
\* cycle that was aborted, and no other step of the loop touches them; so
\* the cycles use 5m, 15m, 1h, 1d, 5m, ...: a cycle never has the timeframe
\* of the cycle before it, nor of the two before that, and has the
\* timeframe of the cycle four cycles back.
C27_PointerAdvancesEveryCycle ==
    [][/\ pc["spot"] = "sleep" =>
             /\ tf_index' = (tf_index + 1) % 4
             /\ tf'[1] = TimeframeOrder[tf_index + 1]
             /\ CycleAborted => tf'[1] # tf[1]
       /\ pc["spot"] = "fetch" => (tf_index' = tf_index /\ tf' = tf)
       /\ \A i \in 1..Len(tf_log') :
             /\ tf_log'[i] \in Range(TimeframeOrder)
             /\ \A j \in 1..Len(tf_log') :
                   tf_log'[i] = tf_log'[j] <=> (j - i) % 4 = 0
      ]_vars

\* C27 witness: the cycle for 5m was left by the break on 429, and it was
\* the first cycle for 5m since the one four cycles back.
C27_Witness ==
    /\ CycleAborted /\ last_end.how = "break"
    /\ tf[1] = "5m"
    /\ tf_log = <<"5m", "15m", "1h", "1d", "5m">>
    /\ tf_index = 1

\* The snapshot rows that can come from a candle list of symbol k[1] with
\* at least (enough) or fewer than 30 candles.
RowsFrom(k, enough) ==
    {SpotTfRow(k[1], compute_spot_snapshot(cs, k[2], k[3], 2)) :
        cs \in {c \in VendorCandles(k[1]) : c # <<>> /\ ((Len(c) >= 30) <=> enough)}}

Spaced(points, fractal) ==
    \A i \in 1..(Len(points) - 1) : points[i + 1].ts - points[i].ts >= fractal + 1

\* The last point comes from a later candle than the previous one.
LastIsLater(last, prev) == (Present(last) /\ Present(prev)) => last.ts > prev.ts

\* C29: in the output of find_swings consecutive swing highs are at least
\* fractal + 1 candles apart, and so are consecutive swing lows; a list
\* with two swing highs or two swing lows has at least 3 * fractal + 2
\* candles; the snapshot of a shorter list has structure state 'unknown';
\* and in a snapshot last_high and last_low come from a later candle than
\* prev_high and prev_low.
C29_SwingsApart ==
    /\ (swings # Pending /\ ~HasRaised(swings)) =>
          /\ Spaced(swings.swing_highs, fractal_in)
          /\ Spaced(swings.swing_lows, fractal_in)
          /\ (Len(swings.swing_highs) >= 2 \/ Len(swings.swing_lows) >= 2) =>
                Len(candles) >= 3 * fractal_in + 2
    /\ (snapshot # Pending /\ ~HasRaised(snapshot)) =>
          /\ Len(candles) < 3 * fractal_in + 2 => snapshot.structure_state = "unknown"
          /\ LastIsLater(snapshot.swings.last_high, snapshot.swings.prev_high)
          /\ LastIsLater(snapshot.swings.last_low, snapshot.swings.prev_low)

\* C29 witness: eight candles, fractal 2, two swing highs exactly three
\* candles apart, which the snapshot reports as previous and last high.
C29_Witness ==
    /\ fractal_in = 2 /\ Len(candles) = 8
    /\ swings # Pending /\ ~HasRaised(swings)
    /\ Len(swings.swing_highs) = 2
    /\ swings.swing_highs[2].ts - swings.swing_highs[1].ts = 3
    /\ snapshot # Pending /\ ~HasRaised(snapshot)
    /\ snapshot.swings.prev_high = swings.swing_highs[1]
    /\ snapshot.swings.last_high = swings.swing_highs[2]

\* C30: every gap of compute_fvgs has its top above its bottom and an age
\* from 2 to n - 1; and when every candle has low <= high, no two gaps
\* have the same age (an interior index gives a bull gap or a bear gap,
\* not both) and there are at most n - 2 gaps.
C30_GapsBounded ==
    (snapshot # Pending /\ ~HasRaised(snapshot)) =>
        LET gaps == snapshot.fvgs
            n == Len(candles)
        IN  /\ \A j \in 1..Len(gaps) :
                  /\ gaps[j].top > gaps[j].bottom
                  /\ gaps[j].age >= 2 /\ gaps[j].age <= n - 1
            /\ WellFormed(candles) =>
                  /\ \A j, k \in 1..Len(gaps) : gaps[j].age = gaps[k].age => j = k
                  /\ Len(gaps) <= Max(0, n - 2)

\* C30 witness: five well-formed candles with a gap at every interior
\* index, the youngest of age 2 and the oldest of age n - 1, and among them
\* a bull gap and a bear gap.
C30_Witness ==
    /\ snapshot # Pending /\ ~HasRaised(snapshot)
    /\ WellFormed(candles) /\ Len(candles) = 5
    /\ Len(snapshot.fvgs) = 3
    /\ snapshot.fvgs[1].age = 4 /\ snapshot.fvgs[3].age = 2
    /\ \E j, k \in 1..3 : snapshot.fvgs[j].type = "bull" /\ snapshot.fvgs[k].type = "bear"

====
